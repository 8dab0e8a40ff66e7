------------------------------- MODULE AbsMap -------------------------------
(***************************************************************************)
(* What sync.Map promises its callers (spec sections 4.2 and 5): a map     *)
(* from keys to values with per-key atomic methods.  A method is a call, *)
(* at most one atomic change of its own key, and a return.  Its result   *)
(* must be explained by a value its key held at some instant while it ran *)
(* (a read takes effect at such an instant, a write at its change); Range *)
(* passes its callback each key at most once, with a value the key held   *)
(* while Range ran.  Nothing else ever changes the map.                   *)
(***************************************************************************)
EXTENDS Sequences

CONSTANTS Goroutines, Keys, Values, Nil, Ops

VARIABLES
    m,      \* the map: key -> value, or Nil when absent
    apc,    \* "idle", "pending" (the method runs) or "done" (it returned)
    aop,    \* the method, its key and value
    held,   \* (key, value) pairs the method's keys held while it ran
    wrote,  \* the change <<before, after>> the method made, or <<>>
    ares,   \* the result [val, ok] of a returned method
    avis    \* the (key, value) pairs a returned Range passed its callback

vars == <<m, apc, aop, held, wrote, ares, avis>>

NoResult == [val |-> Nil, ok |-> TRUE]
Results == [val : Values \cup {Nil}, ok : BOOLEAN]

\* The (key, value) pairs method o observes in map c: its own key, or
\* every key for Range.
Obs(o, c) ==
    IF o.kind = "Range" THEN {<<k, c[k]>> : k \in Keys} ELSE {<<o.key, c[o.key]>>}

Init ==
    /\ m = [k \in Keys |-> Nil]
    /\ apc = [g \in Goroutines |-> "idle"]
    /\ aop = [g \in Goroutines |-> [kind |-> "Load", key |-> Nil, val |-> Nil]]
    /\ held = [g \in Goroutines |-> {}]
    /\ wrote = [g \in Goroutines |-> <<>>]
    /\ ares = [g \in Goroutines |-> NoResult]
    /\ avis = [g \in Goroutines |-> {}]

\* A goroutine calls a method.
Call(g) ==
    LET c == m IN
    /\ apc[g] \in {"idle", "done"}
    /\ apc' = [apc EXCEPT ![g] = "pending"]
    /\ \E o \in Ops :
         /\ aop' = [aop EXCEPT ![g] = o]
         /\ held' = [held EXCEPT ![g] = Obs(o, c)]
    /\ wrote' = [wrote EXCEPT ![g] = <<>>]
    /\ ares' = [ares EXCEPT ![g] = NoResult]
    /\ avis' = [avis EXCEPT ![g] = {}]
    /\ UNCHANGED m

\* The values method o may change its key to from c: Store sets its value,
\* LoadOrStore sets an absent key, LoadAndDelete removes a present one.
Writes(o, c) ==
    LET new == CASE o.kind = "Store"         -> {o.val}
                 [] o.kind = "LoadOrStore"   -> IF c = Nil THEN {o.val} ELSE {}
                 [] o.kind = "LoadAndDelete" -> IF c # Nil THEN {Nil} ELSE {}
                 [] OTHER                    -> {}
    IN  new \ {c}

\* The pending method of g changes its key, once; every pending method
\* observes the new value.
Write(g) ==
    LET k == aop[g].key
        c == m
        pending == {h \in Goroutines : apc[h] = "pending"}
    IN
    /\ g \in pending /\ wrote[g] = <<>>
    /\ aop[g].kind \in {"Store", "LoadOrStore", "LoadAndDelete"}
    /\ \E x \in Writes(aop[g], c[k]) :
         LET c1 == [c EXCEPT ![k] = x] IN
         /\ m' = c1
         /\ wrote' = [wrote EXCEPT ![g] = <<<<c[k], x>>>>]
         /\ held' = [h \in Goroutines |->
                       IF h \in pending THEN held[h] \cup Obs(aop[h], c1) ELSE held[h]]

\* Result r and visited pairs vis of method o are explained by its change
\* w and the pairs hd its keys held: Load returns a held value or not
\* found; Store changed the key or it already held the value; LoadOrStore
\* loaded a held value, or stored its own into an absent key; LoadAndDelete
\* removed the value it returns, or the key was absent; Range visits held
\* pairs, each key at most once.
Explains(o, r, vis, w, hd) ==
    LET H == {x \in Values \cup {Nil} : <<o.key, x>> \in hd} IN
    CASE o.kind = "Load" ->
           /\ w = <<>>
           /\ IF r.ok THEN r.val \in H \ {Nil} ELSE r.val = Nil /\ Nil \in H
      [] o.kind = "Store" ->
           r = NoResult /\ (w # <<>> \/ o.val \in H)
      [] o.kind = "LoadOrStore" ->
           IF r.ok THEN w = <<>> /\ r.val \in H \ {Nil}
                   ELSE w = <<<<Nil, o.val>>>> /\ r.val = o.val
      [] o.kind = "LoadAndDelete" ->
           IF r.ok THEN r.val # Nil /\ w = <<<<r.val, Nil>>>>
                   ELSE r.val = Nil /\ w = <<>> /\ Nil \in H
      [] o.kind = "Range" ->
           /\ r.val = Nil /\ vis \subseteq hd
           /\ \A a, b \in vis : a[1] = b[1] => a = b

\* The pairs method o may pass a callback: only Range has one.
Visits(o) == IF o.kind = "Range" THEN SUBSET (Keys \X Values) ELSE {{}}

\* The pending method of g returns a result its history explains.
Return(g) ==
    LET o == aop[g]
        w == wrote'[g]
        hd == held'[g]
    IN
    /\ apc[g] = "pending"
    /\ apc' = [apc EXCEPT ![g] = "done"]
    /\ \E r \in Results, vis \in Visits(o) :
         /\ Explains(o, r, vis, w, hd)
         /\ ares' = [ares EXCEPT ![g] = r]
         /\ avis' = [avis EXCEPT ![g] = vis]

Next ==
    \E g \in Goroutines :
      \/ Call(g)
      \/ Write(g) /\ UNCHANGED <<apc, aop, ares, avis>>
      \/ UNCHANGED <<m, aop, held, wrote>> /\ Return(g)
      \/ Write(g) /\ UNCHANGED aop /\ Return(g)

Spec == Init /\ [][Next]_vars

====
