---------------------------- MODULE FixedWindow ----------------------------
(***************************************************************************)
(* The rate limiter: an entry per key, with the start of its window and    *)
(* the requests it has let through. The map is bounded: a key it has no    *)
(* entry for evicts the windows that are over, or is refused. Allow holds  *)
(* the mutex, so one call is one step.                                     *)
(***************************************************************************)
EXTENDS Integers, Sequences, FiniteSets

CONSTANTS
    Key,        \* users and addresses
    Limit,      \* requests a window allows
    Window,     \* its length
    MaxKeys,    \* entries the map may hold
    MaxTime,    \* the clock stops here
    MaxAllowed  \* calls recorded for each key

LimiterAssumption == {Limit, Window, MaxKeys} \subseteq Nat \ {0} /\ IsFiniteSet(Key)

VARIABLES
    entries,    \* the map: a start and a count for each key it holds
    now,
    allowed,    \* when each key was let through (history)
    refused     \* the last call that was refused, and when (history)

vars == <<entries, now, allowed, refused>>

NoCall == [key |-> "none", at |-> -1]

Init ==
    /\ entries = <<>>
    /\ now = 0
    /\ allowed = [k \in Key |-> <<>>]
    /\ refused = NoCall

Over(k) == now - entries[k].windowStart >= Window

(* Faulty: any entry makes room for a new key.                             *)
EvictAll == <<>>

Evicted == [k \in {j \in DOMAIN entries : ~Over(j)} |-> entries[k]]

Put(m, k, e) == [j \in DOMAIN m \cup {k} |-> IF j = k THEN e ELSE m[j]]
LetThrough(k) == allowed' = [allowed EXCEPT ![k] = Append(@, now)] /\ UNCHANGED refused
Refuse(k) == refused' = [key |-> k, at |-> now] /\ UNCHANGED allowed

Opened == [windowStart |-> now, count |-> 1]

(* Faulty: windows that are over are evicted, and the key is taken anyway. *)
OpenBeyond(k) ==
    LET kept == IF k \notin DOMAIN entries /\ Cardinality(DOMAIN entries) >= MaxKeys
                THEN Evicted ELSE entries
    IN  entries' = Put(kept, k, Opened) /\ LetThrough(k)

(* A key without an entry, or whose window is over.                        *)
OpenWindow(k) ==
    LET full == k \notin DOMAIN entries /\ Cardinality(DOMAIN entries) >= MaxKeys
        kept == IF full THEN Evicted ELSE entries
    IN  IF full /\ Cardinality(DOMAIN kept) >= MaxKeys
        THEN entries' = kept /\ Refuse(k)
        ELSE entries' = Put(kept, k, Opened) /\ LetThrough(k)

(* Faulty: a call over the limit starts the window again.                  *)
RefusedAndExtended(k) ==
    IF entries[k].count >= Limit
    THEN Refuse(k) /\ entries' = [entries EXCEPT ![k].windowStart = now]
    ELSE entries' = [entries EXCEPT ![k].count = @ + 1] /\ LetThrough(k)

CountCall(k) ==
    IF entries[k].count >= Limit
    THEN Refuse(k) /\ UNCHANGED entries
    ELSE entries' = [entries EXCEPT ![k].count = @ + 1] /\ LetThrough(k)

Allow(k) ==
    /\ Len(allowed[k]) < MaxAllowed
    /\ IF k \notin DOMAIN entries \/ Over(k) THEN OpenWindow(k) ELSE CountCall(k)
    /\ UNCHANGED now

Tick ==
    /\ now < MaxTime
    /\ now' = now + 1
    /\ UNCHANGED <<entries, allowed, refused>>

Next == Tick \/ \E k \in Key : Allow(k)

Spec == Init /\ [][Next]_vars

-----------------------------------------------------------------------------
(* How often a key was let through after a point in time.                  *)
Since(k, t) == Cardinality({n \in 1..Len(allowed[k]) : allowed[k][n] > t})

(* The map never holds more keys than it may, and counts within the limit. *)
TypeOK ==
    /\ DOMAIN entries \subseteq Key /\ Cardinality(DOMAIN entries) <= MaxKeys
    /\ \A k \in DOMAIN entries : entries[k].count \in 1..Limit /\ entries[k].windowStart \in 0..now

(* Over any window of time, wherever it starts, a key is let through at    *)
(* most twice its limit, whatever evictions other keys bring about.        *)
AtMostTwice == \A k \in Key : Since(k, now - Window) <= 2 * Limit

(* A call is refused only to a key that has used its limit up in the       *)
(* current window, or when every place is taken by a running window: a key *)
(* cannot be shut out by its own or by others' past calls.                 *)
RefusedForAReason ==
    refused.at = now =>
        \/ Since(refused.key, now - Window) >= Limit
        \/ Cardinality({k \in Key : Since(k, now - Window) > 0}) >= MaxKeys
=============================================================================
