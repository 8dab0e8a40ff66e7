------------------------------- MODULE SyncMap -------------------------------
(***************************************************************************)
(* sync.Map (lines 63-364 of src/go-go1.0.1/src/pkg/hash/crc32/            *)
(* crc32_amd64.s).  read is an atomically published readOnly{m, amended}; *)
(* dirty and misses are guarded by mu; every *entry holds a pointer p that *)
(* is a value, nil or expunged and changes by atomic load/CAS/store.       *)
(*                                                                         *)
(* Granularity: every atomic access of read or of an entry's p is a step  *)
(* of its own.  Accesses of dirty and misses happen under mu and are      *)
(* folded into the neighbouring step, and so are mu.Lock/Unlock when a    *)
(* locked section makes only one such access; sections with more hold mu  *)
(* across steps.  A CAS retry loop on p (tryStore, tryLoadOrStore,        *)
(* entry.delete, tryExpungeLocked) is one step: a failed CAS changes      *)
(* nothing and the loop reloads p.  p is abstracted to the value it       *)
(* points to.  mu is an atomic lock: modules Mutex and MutexV1 show that  *)
(* both mutexes implement Locker.  Entries are addresses from the set     *)
(* Entries; a new entry takes the lowest address nothing refers to (which *)
(* free address the allocator returns makes no difference to the Map).   *)
(***************************************************************************)
EXTENDS Integers, FiniteSets, Sequences, Functions

CONSTANTS
    Goroutines,   \* goroutines calling the Map's methods
    Keys,         \* keys
    Values,       \* values stored
    Entries,      \* addresses an *entry may have: 1..n
    Nil,          \* Go's nil: nil pointer, nil map, key not found
    Expunged,     \* the expunged sentinel pointer
    Methods       \* the methods the goroutines call

ASSUME Methods \subseteq {"Load", "Store", "LoadOrStore", "LoadAndDelete", "Range"}

VARIABLES
    readM,    \* read.Load().(readOnly).m : key -> entry or Nil
    amended,  \* read.Load().(readOnly).amended
    dirty,    \* m.dirty: key -> entry or Nil, or Nil (a nil map)
    misses,   \* m.misses
    p,        \* e.p of every entry
    mu,       \* the goroutine holding m.mu across steps, or Nil
    pc,       \* where each goroutine is
    op,       \* the method each goroutine runs, its key and value
    ent,      \* the local e
    res,      \* the method's results
    todo,     \* keys the range loop (dirtyLocked, Range) has still to visit
    snap,     \* Range's read.m
    visited,  \* the (key, value) pairs Range passed to f
    \* history, not in the code: what the refinement mapping needs
    seen,     \* (key, logical value) pairs held while the method ran
    effs      \* changes of its key's logical value the method's steps made

mapVars == <<readM, amended, dirty, misses, p, mu>>
localVars == <<pc, op, ent, res, todo, snap, visited>>
histVars == <<seen, effs>>
vars == <<mapVars, localVars, histVars>>

EmptyMap == [k \in Keys |-> Nil]
MapOf(d) == IF d = Nil THEN EmptyMap ELSE d
KeysOf(d) == {k \in Keys : MapOf(d)[k] # Nil}
LenOf(d) == Cardinality(KeysOf(d))

Ops ==
    [kind : Methods \cap {"Load", "LoadAndDelete"}, key : Keys, val : {Nil}]
    \cup [kind : Methods \cap {"Store", "LoadOrStore"}, key : Keys, val : Values]
    \cup [kind : Methods \cap {"Range"}, key : {Nil}, val : {Nil}]

PCs == {"idle", "start", "try", "locked", "unexpunge", "storeLocked",
        "tryLocked", "expunge", "amend", "miss", "entry", "iter", "done",
        "panic"}

NoResult == [val |-> Nil, ok |-> TRUE]

\* Entries something refers to: read, dirty, a goroutine's e or snapshot.
Referenced ==
    (Range(readM) \cup Range(MapOf(dirty)) \cup Range(ent)
     \cup UNION {Range(snap[g]) : g \in Goroutines}) \ {Nil}

Init ==
    /\ readM = EmptyMap /\ amended = FALSE /\ dirty = Nil /\ misses = 0
    /\ p = [e \in Entries |-> Nil]
    /\ mu = Nil
    /\ pc = [g \in Goroutines |-> "idle"]
    /\ op = [g \in Goroutines |-> [kind |-> "Load", key |-> Nil, val |-> Nil]]
    /\ ent = [g \in Goroutines |-> Nil]
    /\ res = [g \in Goroutines |-> NoResult]
    /\ todo = [g \in Goroutines |-> {}]
    /\ snap = [g \in Goroutines |-> EmptyMap]
    /\ visited = [g \in Goroutines |-> {}]
    /\ seen = [g \in Goroutines |-> {}]
    /\ effs = [g \in Goroutines |-> <<>>]

Goto(g, l) == pc' = [pc EXCEPT ![g] = l]
Set(f, g, v) == f' = [f EXCEPT ![g] = v]
SetP(e, v) == p' = [p EXCEPT ![e] = v]

\* Return (value, ok) from the method.
Return(g, v, ok) ==
    /\ Goto(g, "done")
    /\ Set(res, g, [val |-> v, ok |-> ok])
    /\ Set(ent, g, Nil)

-----------------------------------------------------------------------------
(* Helpers called under mu                                                 *)

\* Fault checked to be caught: a promotion that does not reset misses.
MissLockedKeepsMisses(d) ==
    IF misses + 1 < LenOf(d)
      THEN misses' = misses + 1 /\ dirty' = d /\ UNCHANGED <<readM, amended>>
      ELSE /\ readM' = MapOf(d) /\ amended' = FALSE
           /\ dirty' = Nil /\ misses' = misses + 1

\* missLocked on the dirty map d: count the miss, promote d to read when
\* the misses reach len(d).
MissLocked(d) ==
    IF misses + 1 < LenOf(d)
      THEN misses' = misses + 1 /\ dirty' = d /\ UNCHANGED <<readM, amended>>
      ELSE /\ readM' = MapOf(d) /\ amended' = FALSE
           /\ dirty' = Nil /\ misses' = 0

\* m.dirty[key] = newEntry(value): a fresh entry at an unused address.
\* Assigning to a nil map panics.
NewEntryLocked(g) ==
    IF dirty = Nil
      THEN Goto(g, "panic") /\ UNCHANGED <<dirty, p, res>>
      ELSE /\ LET free == Entries \ Referenced
                    e == CHOOSE x \in free : \A y \in free : x <= y
                IN  /\ SetP(e, op[g].val)
                    /\ dirty' = [dirty EXCEPT ![op[g].key] = e]
           /\ Goto(g, "done")
           /\ IF op[g].kind = "LoadOrStore"
                THEN Set(res, g, [val |-> op[g].val, ok |-> FALSE])
                ELSE UNCHANGED res

\* A new key under mu (Store 157-163, LoadOrStore 214-220): if read is
\* amended insert the new entry; else dirtyLocked (340-351) makes dirty
\* if it is nil, and Expunge then Amend run while mu is held.
NewKeyLocked(g) ==
    IF amended
      THEN /\ NewEntryLocked(g)
           /\ UNCHANGED <<readM, amended, misses, mu, todo>>
    ELSE IF dirty # Nil
      THEN /\ Goto(g, "amend") /\ mu' = g
           /\ UNCHANGED <<readM, amended, dirty, misses, p, res, todo>>
    ELSE /\ dirty' = EmptyMap
         /\ Set(todo, g, KeysOf(readM))
         /\ Goto(g, IF KeysOf(readM) = {} THEN "amend" ELSE "expunge")
         /\ mu' = g
         /\ UNCHANGED <<readM, amended, misses, p, res>>

-----------------------------------------------------------------------------
(* Load (97-118) and entry.load (120-128)                                  *)

\* read := m.read.Load(); e, ok := read.m[key].  Not there and not
\* amended: the key does not exist.
LoadRead(g) ==
    LET e == readM[op[g].key] IN
    /\ pc[g] = "start" /\ op[g].kind = "Load"
    /\ IF e # Nil THEN Goto(g, "entry") /\ Set(ent, g, e) /\ UNCHANGED res
       ELSE IF amended THEN Goto(g, "locked") /\ UNCHANGED <<ent, res>>
       ELSE Return(g, Nil, FALSE)
    /\ UNCHANGED <<mapVars, op, todo, snap, visited>>

\* Fault checked to be caught: the locked path trusts the first look at
\* read and goes straight to dirty.
LockedLookupNoRecheck(k) == MapOf(dirty)[k]

\* Under mu: e, ok = read.m[key] again, and if still not there and
\* amended, e, ok = m.dirty[key].
LockedLookup(k) ==
    IF readM[k] # Nil \/ ~amended THEN readM[k] ELSE MapOf(dirty)[k]

\* Under mu: look in read again, then in dirty, counting a miss.
LoadLocked(g) ==
    LET k == op[g].key
        e == LockedLookup(k)
    IN
    /\ pc[g] = "locked" /\ op[g].kind = "Load" /\ mu = Nil
    /\ IF readM[k] = Nil /\ amended THEN MissLocked(dirty)
                                    ELSE UNCHANGED <<readM, amended, dirty, misses>>
    /\ IF e # Nil THEN Goto(g, "entry") /\ Set(ent, g, e) /\ UNCHANGED res
                  ELSE Return(g, Nil, FALSE)
    /\ UNCHANGED <<p, mu, op, todo, snap, visited>>

\* e.load(): nil and expunged read as not found.
LoadEntry(g) ==
    LET v == p[ent[g]] IN
    /\ pc[g] = "entry" /\ op[g].kind = "Load"
    /\ IF v \in Values THEN Return(g, v, TRUE) ELSE Return(g, Nil, FALSE)
    /\ UNCHANGED <<mapVars, op, todo, snap, visited>>

-----------------------------------------------------------------------------
(* Store (131-165), tryStore (168-180), unexpungeLocked (185-187),         *)
(* storeLocked (190-192)                                                   *)

\* read := m.read.Load(); the key in read: try the entry without mu.
StoreRead(g) ==
    LET e == readM[op[g].key] IN
    /\ pc[g] = "start" /\ op[g].kind = "Store"
    /\ Goto(g, IF e # Nil THEN "try" ELSE "locked")
    /\ Set(ent, g, e)
    /\ UNCHANGED <<mapVars, op, res, todo, snap, visited>>

\* Fault checked to be caught: tryStore that does not check for expunged.
TryStoreIntoExpunged(g) ==
    /\ pc[g] = "try" /\ op[g].kind = "Store"
    /\ SetP(ent[g], op[g].val) /\ Return(g, Nil, TRUE)
    /\ UNCHANGED <<readM, amended, dirty, misses, mu, op, todo, snap, visited>>

\* tryStore: fails on an expunged entry, else CAS in the new value.
TryStore(g) ==
    /\ pc[g] = "try" /\ op[g].kind = "Store"
    /\ IF p[ent[g]] = Expunged
         THEN Goto(g, "locked") /\ UNCHANGED <<p, ent, res>>
         ELSE SetP(ent[g], op[g].val) /\ Return(g, Nil, TRUE)
    /\ UNCHANGED <<readM, amended, dirty, misses, mu, op, todo, snap, visited>>

\* Under mu: read again; an expunged entry of read is unexpunged and
\* stored into, a key of dirty is stored into, a new key is added.
StoreLocked(g) ==
    LET k == op[g].key IN
    /\ pc[g] = "locked" /\ op[g].kind = "Store" /\ mu = Nil
    /\ IF readM[k] # Nil
         THEN /\ mu' = g /\ Set(ent, g, readM[k]) /\ Goto(g, "unexpunge")
              /\ UNCHANGED <<readM, amended, dirty, misses, p, res, todo>>
       ELSE IF MapOf(dirty)[k] # Nil
         THEN /\ SetP(dirty[k], op[g].val) /\ Return(g, Nil, TRUE)
              /\ UNCHANGED <<readM, amended, dirty, misses, mu, todo>>
       ELSE Set(ent, g, Nil) /\ NewKeyLocked(g)
    /\ UNCHANGED <<op, snap, visited>>

\* Fault checked to be caught: unexpungeLocked that does not put the
\* entry back into dirty.
UnexpungeWithoutDirty(g) ==
    LET e == ent[g]
        next == IF op[g].kind = "Store" THEN "storeLocked" ELSE "tryLocked"
    IN
    /\ pc[g] = "unexpunge"
    /\ IF p[e] = Expunged THEN SetP(e, Nil) ELSE UNCHANGED p
    /\ Goto(g, next)
    /\ UNCHANGED <<readM, amended, dirty, misses, mu, op, ent, res, todo, snap, visited>>

\* unexpungeLocked: CAS expunged -> nil; if it was expunged, put the
\* entry into dirty (a nil dirty panics).
Unexpunge(g) ==
    LET e == ent[g]
        next == IF op[g].kind = "Store" THEN "storeLocked" ELSE "tryLocked"
    IN
    /\ pc[g] = "unexpunge"
    /\ IF p[e] # Expunged THEN Goto(g, next) /\ UNCHANGED <<p, dirty>>
       ELSE IF dirty = Nil THEN SetP(e, Nil) /\ Goto(g, "panic") /\ UNCHANGED dirty
       ELSE /\ SetP(e, Nil) /\ dirty' = [dirty EXCEPT ![op[g].key] = e]
            /\ Goto(g, next)
    /\ UNCHANGED <<readM, amended, misses, mu, op, ent, res, todo, snap, visited>>

\* e.storeLocked(&value), then mu.Unlock().
StoreEntryLocked(g) ==
    /\ pc[g] = "storeLocked"
    /\ SetP(ent[g], op[g].val)
    /\ mu' = Nil
    /\ Return(g, Nil, TRUE)
    /\ UNCHANGED <<readM, amended, dirty, misses, op, todo, snap, visited>>

-----------------------------------------------------------------------------
(* dirtyLocked (340-351), tryExpungeLocked (355-364), and the rest of the *)
(* new-key path                                                            *)

\* One turn of dirtyLocked's loop over read.m: tryExpungeLocked turns a
\* nil entry into expunged; an entry that is not expunged is copied.
Expunge(g) ==
    /\ pc[g] = "expunge"
    /\ \E k \in todo[g] :
         LET e == readM[k] IN
         /\ IF p[e] = Nil THEN SetP(e, Expunged) /\ UNCHANGED dirty
            ELSE IF p[e] = Expunged THEN UNCHANGED <<p, dirty>>
            ELSE dirty' = [dirty EXCEPT ![k] = e] /\ UNCHANGED p
         /\ Set(todo, g, todo[g] \ {k})
         /\ Goto(g, IF todo[g] = {k} THEN "amend" ELSE "expunge")
    /\ UNCHANGED <<readM, amended, misses, mu, op, ent, res, snap, visited>>

\* m.read.Store(readOnly{m: read.m, amended: true}), m.dirty[key] =
\* newEntry(value), mu.Unlock().
Amend(g) ==
    /\ pc[g] = "amend"
    /\ amended' = TRUE
    /\ NewEntryLocked(g)
    /\ mu' = Nil
    /\ UNCHANGED <<readM, misses, op, ent, todo, snap, visited>>

-----------------------------------------------------------------------------
(* LoadOrStore (196-225), tryLoadOrStore (231-252)                         *)

\* Fault checked to be caught: a successful store reported as loaded.
TryLoadOrStoreOnReportsLoaded(g, e) ==
    LET v == p[e] IN
    IF v = Nil THEN /\ SetP(e, op[g].val)
                    /\ Set(res, g, [val |-> op[g].val, ok |-> TRUE])
    ELSE IF v = Expunged THEN UNCHANGED p /\ Set(res, g, [val |-> Nil, ok |-> FALSE])
    ELSE UNCHANGED p /\ Set(res, g, [val |-> v, ok |-> TRUE])

\* tryLoadOrStore on entry e: expunged fails (ok = false), a value is
\* loaded, nil is replaced by the new value.  res.ok is "loaded".
TryLoadOrStoreOn(g, e) ==
    LET v == p[e] IN
    IF v = Nil THEN /\ SetP(e, op[g].val)
                    /\ Set(res, g, [val |-> op[g].val, ok |-> FALSE])
    ELSE IF v = Expunged THEN UNCHANGED p /\ Set(res, g, [val |-> Nil, ok |-> FALSE])
    ELSE UNCHANGED p /\ Set(res, g, [val |-> v, ok |-> TRUE])

\* read := m.read.Load(); the key in read: try the entry without mu.
LoadOrStoreRead(g) ==
    LET e == readM[op[g].key] IN
    /\ pc[g] = "start" /\ op[g].kind = "LoadOrStore"
    /\ Goto(g, IF e # Nil THEN "try" ELSE "locked")
    /\ Set(ent, g, e)
    /\ UNCHANGED <<mapVars, op, res, todo, snap, visited>>

\* The fast path returns unless the entry was expunged.
TryLoadOrStore(g) ==
    /\ pc[g] = "try" /\ op[g].kind = "LoadOrStore"
    /\ IF p[ent[g]] = Expunged
         THEN Goto(g, "locked") /\ UNCHANGED <<p, ent, res>>
         ELSE TryLoadOrStoreOn(g, ent[g]) /\ Goto(g, "done") /\ Set(ent, g, Nil)
    /\ UNCHANGED <<readM, amended, dirty, misses, mu, op, todo, snap, visited>>

\* Under mu: read again; an entry of read is unexpunged, an entry of
\* dirty is tried and a miss counted, a new key is added.
LoadOrStoreLocked(g) ==
    LET k == op[g].key IN
    /\ pc[g] = "locked" /\ op[g].kind = "LoadOrStore" /\ mu = Nil
    /\ IF readM[k] # Nil
         THEN /\ mu' = g /\ Set(ent, g, readM[k]) /\ Goto(g, "unexpunge")
              /\ UNCHANGED <<readM, amended, dirty, misses, p, res, todo>>
       ELSE IF MapOf(dirty)[k] # Nil
         THEN /\ TryLoadOrStoreOn(g, dirty[k]) /\ Goto(g, "miss")
              /\ mu' = g /\ Set(ent, g, Nil)
              /\ UNCHANGED <<readM, amended, dirty, misses, todo>>
       ELSE Set(ent, g, Nil) /\ NewKeyLocked(g)
    /\ UNCHANGED <<op, snap, visited>>

\* After trying the entry of dirty: missLocked, mu.Unlock(), return.
LoadOrStoreMiss(g) ==
    /\ pc[g] = "miss"
    /\ MissLocked(dirty)
    /\ mu' = Nil
    /\ Goto(g, "done")
    /\ UNCHANGED <<p, op, ent, res, todo, snap, visited>>

\* tryLoadOrStore on the unexpunged entry under mu, mu.Unlock(), return.
TryLoadOrStoreLocked(g) ==
    /\ pc[g] = "tryLocked"
    /\ TryLoadOrStoreOn(g, ent[g])
    /\ mu' = Nil
    /\ Goto(g, "done") /\ Set(ent, g, Nil)
    /\ UNCHANGED <<readM, amended, dirty, misses, op, todo, snap, visited>>

-----------------------------------------------------------------------------
(* LoadAndDelete (257-275), Delete (279-281), entry.delete (284-294)       *)

\* read := m.read.Load(); e, ok := read.m[key] (as in Load).
LoadAndDeleteRead(g) ==
    LET e == readM[op[g].key] IN
    /\ pc[g] = "start" /\ op[g].kind = "LoadAndDelete"
    /\ IF e # Nil THEN Goto(g, "entry") /\ Set(ent, g, e) /\ UNCHANGED res
       ELSE IF amended THEN Goto(g, "locked") /\ UNCHANGED <<ent, res>>
       ELSE Return(g, Nil, FALSE)
    /\ UNCHANGED <<mapVars, op, todo, snap, visited>>

\* Under mu: read again; a key only in dirty is deleted from dirty and a
\* miss counted.
LoadAndDeleteLocked(g) ==
    LET k == op[g].key
        e == LockedLookup(k)
    IN
    /\ pc[g] = "locked" /\ op[g].kind = "LoadAndDelete" /\ mu = Nil
    /\ IF readM[k] = Nil /\ amended
         THEN MissLocked(IF dirty = Nil THEN Nil ELSE [dirty EXCEPT ![k] = Nil])
         ELSE UNCHANGED <<readM, amended, dirty, misses>>
    /\ IF e # Nil THEN Goto(g, "entry") /\ Set(ent, g, e) /\ UNCHANGED res
                  ELSE Return(g, Nil, FALSE)
    /\ UNCHANGED <<p, mu, op, todo, snap, visited>>

\* e.delete(): nil or expunged is not found, else CAS the value to nil.
EntryDelete(g) ==
    LET v == p[ent[g]] IN
    /\ pc[g] = "entry" /\ op[g].kind = "LoadAndDelete"
    /\ IF v \in Values THEN SetP(ent[g], Nil) /\ Return(g, v, TRUE)
                       ELSE UNCHANGED p /\ Return(g, Nil, FALSE)
    /\ UNCHANGED <<readM, amended, dirty, misses, mu, op, todo, snap, visited>>

-----------------------------------------------------------------------------
(* Range (298-321)                                                         *)

\* Fault checked to be caught: Range iterates read even when amended.
RangeReadNoPromote(g) ==
    /\ pc[g] = "start" /\ op[g].kind = "Range"
    /\ Set(snap, g, readM) /\ Set(todo, g, KeysOf(readM))
    /\ Goto(g, IF KeysOf(readM) = {} THEN "done" ELSE "iter")
    /\ UNCHANGED <<mapVars, op, ent, res, visited>>

\* read := m.read.Load(); iterate it unless amended.
RangeRead(g) ==
    /\ pc[g] = "start" /\ op[g].kind = "Range"
    /\ IF amended
         THEN Goto(g, "locked") /\ UNCHANGED <<todo, snap>>
         ELSE /\ Set(snap, g, readM) /\ Set(todo, g, KeysOf(readM))
              /\ Goto(g, IF KeysOf(readM) = {} THEN "done" ELSE "iter")
    /\ UNCHANGED <<mapVars, op, ent, res, visited>>

\* Fault checked to be caught: Range promotes dirty under mu without
\* checking amended again.
RangeLockedNoRecheck(g) ==
    LET r == MapOf(dirty) IN
    /\ pc[g] = "locked" /\ op[g].kind = "Range" /\ mu = Nil
    /\ readM' = r /\ amended' = FALSE /\ dirty' = Nil /\ misses' = 0
    /\ Set(snap, g, r) /\ Set(todo, g, KeysOf(r))
    /\ Goto(g, IF KeysOf(r) = {} THEN "done" ELSE "iter")
    /\ UNCHANGED <<p, mu, op, ent, res, visited>>

\* Under mu: if still amended promote dirty to read; iterate read.
RangeLocked(g) ==
    LET r == IF amended THEN MapOf(dirty) ELSE readM IN
    /\ pc[g] = "locked" /\ op[g].kind = "Range" /\ mu = Nil
    /\ IF amended
         THEN readM' = r /\ amended' = FALSE /\ dirty' = Nil /\ misses' = 0
         ELSE UNCHANGED <<readM, amended, dirty, misses>>
    /\ Set(snap, g, r) /\ Set(todo, g, KeysOf(r))
    /\ Goto(g, IF KeysOf(r) = {} THEN "done" ELSE "iter")
    /\ UNCHANGED <<p, mu, op, ent, res, visited>>

\* One turn of the loop: e.load() of one key (in any order); a found pair
\* goes to f, which may stop the loop (res.ok = FALSE).
RangeIter(g) ==
    /\ pc[g] = "iter"
    /\ \E k \in todo[g], cont \in BOOLEAN :
         LET v == p[snap[g][k]]
             more == todo[g] # {k} /\ (v \in Values => cont)
         IN
         /\ IF v \in Values
              THEN /\ Set(visited, g, visited[g] \cup {<<k, v>>})
                   /\ Set(res, g, [val |-> Nil, ok |-> cont])
              ELSE cont /\ UNCHANGED <<visited, res>>
         /\ Set(todo, g, IF more THEN todo[g] \ {k} ELSE {})
         /\ Set(snap, g, IF more THEN snap[g] ELSE EmptyMap)
         /\ Goto(g, IF more THEN "iter" ELSE "done")
    /\ UNCHANGED <<mapVars, op, ent>>

-----------------------------------------------------------------------------

\* A goroutine calls a method of the Map: Load, Store, LoadOrStore,
\* LoadAndDelete (Delete is LoadAndDelete with the result dropped) or Range
\* with any key and value.
Call(g) ==
    /\ pc[g] \in {"idle", "done"}
    /\ \E o \in Ops : Set(op, g, o)
    /\ Goto(g, "start")
    /\ Set(res, g, NoResult) /\ Set(visited, g, {})
    /\ UNCHANGED <<mapVars, ent, todo, snap>>

Step(g) ==
    \/ LoadRead(g) \/ LoadLocked(g) \/ LoadEntry(g)
    \/ StoreRead(g) \/ TryStore(g) \/ StoreLocked(g) \/ Unexpunge(g)
    \/ StoreEntryLocked(g) \/ Expunge(g) \/ Amend(g)
    \/ LoadOrStoreRead(g) \/ TryLoadOrStore(g) \/ LoadOrStoreLocked(g)
    \/ LoadOrStoreMiss(g) \/ TryLoadOrStoreLocked(g)
    \/ LoadAndDeleteRead(g) \/ LoadAndDeleteLocked(g) \/ EntryDelete(g)
    \/ RangeRead(g) \/ RangeLocked(g) \/ RangeIter(g)

-----------------------------------------------------------------------------
(* History                                                                 *)

\* The logical content of the Map: a key of read is what its entry holds,
\* a key only in dirty what that entry holds; nil and expunged are absent.
Content ==
    [k \in Keys |->
        LET e == IF readM[k] # Nil THEN readM[k] ELSE MapOf(dirty)[k] IN
        IF e # Nil /\ p[e] \in Values THEN p[e] ELSE Nil]

\* The (key, content) pairs a running method of h observes in content c.
Obs(h, c) ==
    IF op'[h].kind = "Range" THEN {<<k, c[k]>> : k \in Keys}
                             ELSE {<<op'[h].key, c[op'[h].key]>>}

\* Record, for a step of g: what every running method observes, and the
\* change the step makes to the content of g's key.
Record(g) ==
    LET c0 == Content
        c1 == Content'
        k == op'[g].key
        calling == pc[g] \in {"idle", "done"}
    IN
    /\ seen' = [h \in Goroutines |->
                  IF h = g /\ calling THEN Obs(h, c1)
                  ELSE IF pc[h] \in {"idle", "done"} THEN seen[h]
                  ELSE seen[h] \cup Obs(h, c1)]
    /\ effs' = [effs EXCEPT ![g] =
                  IF calling THEN <<>>
                  ELSE IF k \in Keys /\ c1[k] # c0[k] THEN Append(@, <<c0[k], c1[k]>>)
                  ELSE @]

Next == \E g \in Goroutines : (Call(g) \/ Step(g)) /\ Record(g)

Spec == Init /\ [][Next]_vars

\* States that differ only in the p of entries nothing refers to behave
\* alike: such a p is written before it is read again.
View == <<readM, amended, dirty, misses, [e \in Referenced |-> p[e]], mu,
          localVars, histVars>>

-----------------------------------------------------------------------------
(* Properties                                                              *)

Pointers == Values \cup {Nil, Expunged}
EntryMaps == [Keys -> Entries \cup {Nil}]

\* The type of every variable; the pool of entry addresses never runs
\* out (a new entry always finds an address nothing refers to).
TypeOK ==
    /\ readM \in EntryMaps /\ amended \in BOOLEAN
    /\ dirty \in EntryMaps \cup {Nil}
    /\ misses \in 0..Cardinality(Keys)
    /\ p \in [Entries -> Pointers]
    /\ mu \in Goroutines \cup {Nil}
    /\ pc \in [Goroutines -> PCs]
    /\ ent \in [Goroutines -> Entries \cup {Nil}]
    /\ Cardinality(Referenced) < Cardinality(Entries)

\* The abstract map: Content is the map, a goroutine inside a method is
\* pending, and a returned method's result is its res.
AM == INSTANCE AbsMap WITH
        m <- Content,
        apc <- [g \in Goroutines |->
                  IF pc[g] \in {"idle", "done"} THEN pc[g] ELSE "pending"],
        aop <- op,
        held <- seen,
        wrote <- effs,
        ares <- [g \in Goroutines |-> IF pc[g] = "done" THEN res[g] ELSE NoResult],
        avis <- [g \in Goroutines |-> IF pc[g] = "done" THEN visited[g] ELSE {}]

\* sync.Map implements AbsMap: every method behaves as one atomic
\* operation on the logical map, taking effect at one instant of its run
\* (Load returns a value the key held meanwhile, a write changes its key
\* in exactly one step, LoadOrStore either loads or stores, Range visits
\* each key once with a value it held), and no step changes a key other
\* than the stepping method's own: dirtyLocked's expunging, unexpunging,
\* and the promotions in missLocked and Range move entries between read
\* and dirty without losing or resurrecting a key, however the lock-free
\* fast paths interleave with them.
\* (Steps that leave the abstract map and every method's phase alone are
\* the common case; they are tested first.)
ImplementsAbsMap == AM!Init /\ [][UNCHANGED AM!vars \/ AM!Next]_AM!vars

\* A Range that ran to the end (f never stopped it) passed f every key
\* that was present all the time Range ran: the promotion of dirty at the
\* start of Range lets it see keys that were only in dirty.
RangeComplete ==
    \A h \in Goroutines :
      pc[h] = "done" /\ op[h].kind = "Range" /\ res[h].ok =>
        \A k \in Keys :
          <<k, Nil>> \notin seen[h] => \E v \in Values : <<k, v>> \in visited[h]

\* The read/dirty invariant of the Map (spec section 3): read and dirty
\* share the entry of a key they both hold; dirty never holds an expunged
\* entry; amended means dirty exists; and once dirtyLocked has copied read,
\* every key of read that is not expunged is in dirty, so that a promotion
\* of dirty loses none.  No assignment to a nil dirty (a panic) happens.
\* dirtyLocked has still to copy key k of read.
Copying(k) == \E g \in Goroutines : pc[g] = "expunge" /\ k \in todo[g]

ReadDirtyConsistent ==
    /\ amended => dirty # Nil
    /\ \A g \in Goroutines : pc[g] # "panic"
    /\ dirty # Nil =>
         \A k \in Keys :
           /\ dirty[k] # Nil => p[dirty[k]] # Expunged
           /\ readM[k] # Nil /\ dirty[k] # Nil => readM[k] = dirty[k]
           /\ readM[k] # Nil /\ p[readM[k]] # Expunged
              /\ ~Copying(k)
                => dirty[k] = readM[k]

====
