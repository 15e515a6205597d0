---------------------------- MODULE IdempotencyLedger ----------------------------
(***************************************************************************)
(* The request ledger: a mutation claims its idempotency key in its own    *)
(* transaction, and records its answer before it commits. A batch runs one *)
(* transaction per item under a key derived from its own. Servers die,     *)
(* answers get lost, and clients send the same request again while its     *)
(* first copy may still be running.                                        *)
(***************************************************************************)
EXTENDS Naturals, FiniteSets

CONSTANTS
    Key,       \* idempotency keys in use
    Thing,     \* items
    Op,        \* the operations asked for
    Server,    \* requests being served
    Nil,       \* no row, no item
    MaxCalls   \* how often clients send or repeat a request

\* Faulty: access is always checked first.
EveryOp == {"star", "rename", "trash", "restore"}

(* Starring and renaming check access before they look at the ledger,      *)
(* trashing, restoring and creating a folder look there first.             *)
AccessFirst == {"star", "rename"}
LedgerFirst == {"trash", "restore"}

OpsAssumption ==
    /\ Op \subseteq AccessFirst \cup LedgerFirst
    /\ Nil \notin Thing \cup Op \cup (Key \X Thing)
    /\ MaxCalls \in Nat

VARIABLES
    ledger,    \* committed rows of mutation_request: the operation of each key
    claimed,   \* the key each open transaction has inserted
    value,     \* the last operation that took effect on each item
    allowed,   \* items the user may change
    call,      \* what each server is doing
    calls,     \* history: requests sent so far
    effects,   \* history: how often each key took effect on each item
    answers    \* history: results that reached a client

vars == <<ledger, claimed, value, allowed, call, calls, effects, answers>>

Slot == Key \X Thing
Idle == [key |-> Nil, op |-> Nil, left |-> {}, at |-> Nil, results |-> {}]

Init ==
    /\ ledger = [s \in Slot |-> Nil]
    /\ claimed = [p \in Server |-> Nil]
    /\ value = [t \in Thing |-> Nil]
    /\ allowed = Thing
    /\ call = [p \in Server |-> Idle]
    /\ calls = 0
    /\ effects = [s \in Slot |-> 0]
    /\ answers = {}

(* A request of one item, or a batch; the order of item_ids is any.        *)
Receive(p) ==
    /\ call[p] = Idle /\ calls < MaxCalls
    /\ \E k \in Key, o \in Op, things \in SUBSET Thing \ {{}} :
        call' = [call EXCEPT ![p] = [key |-> k, op |-> o, left |-> things,
                                     at |-> Nil, results |-> {}]]
    /\ calls' = calls + 1
    /\ UNCHANGED <<ledger, claimed, value, allowed, effects, answers>>

SlotOf(p, t) == <<call[p].key, t>>

\* Faulty: the item stays the current one.
KeepsPlace(p, t, result) ==
    call' = [call EXCEPT ![p].left = @ \ {t}, ![p].results = @ \cup {<<t, result>>}]

Finish(p, t, result) ==
    call' = [call EXCEPT ![p].left = @ \ {t}, ![p].at = Nil, ![p].results = @ \cup {<<t, result>>}]

CheckAccess(p, t) ==
    /\ t \in call[p].left /\ call[p].at = Nil
    /\ IF call[p].op \in AccessFirst /\ t \notin allowed
       THEN Finish(p, t, "failed")
       ELSE call' = [call EXCEPT ![p].at = t]
    /\ UNCHANGED <<ledger, claimed, value, allowed, calls, effects, answers>>

\* Faulty: the row of a finished request is not noticed.
NeverSeen(s) == TRUE

Fresh(s) == ledger[s] = Nil

\* Faulty: the operation of the stored row is not compared.
AnyOperation(s, o) == ledger[s] # Nil

Replayed(s, o) == ledger[s] = o

(* ON CONFLICT DO NOTHING waits for the transaction that holds the key.    *)
Claim(p) ==
    LET t == call[p].at
        s == SlotOf(p, t)
    IN
    /\ t # Nil /\ claimed[p] = Nil
    /\ \A q \in Server : claimed[q] # s
    /\ IF Fresh(s)
       THEN claimed' = [claimed EXCEPT ![p] = s] /\ UNCHANGED call
       ELSE /\ Finish(p, t, IF Replayed(s, call[p].op) THEN "done" ELSE "failed")
            /\ UNCHANGED claimed
    /\ UNCHANGED <<ledger, value, allowed, calls, effects, answers>>

\* Faulty: a request that is refused keeps its key.
KeepsKey(p) == ledger' = [ledger EXCEPT ![claimed[p]] = call[p].op]

FreesKey(p) == UNCHANGED ledger

(* The change, its answer and the ledger row commit together; a refusal    *)
(* rolls the claim back.                                                   *)
Perform(p) ==
    LET t == call[p].at IN
    /\ t # Nil /\ claimed[p] # Nil
    /\ claimed' = [claimed EXCEPT ![p] = Nil]
    /\ IF t \in allowed
       THEN /\ ledger' = [ledger EXCEPT ![claimed[p]] = call[p].op]
            /\ value' = [value EXCEPT ![t] = call[p].op]
            /\ effects' = [effects EXCEPT ![claimed[p]] = @ + 1]
            /\ Finish(p, t, "done")
       ELSE /\ FreesKey(p)
            /\ Finish(p, t, "failed")
            /\ UNCHANGED <<value, effects>>
    /\ UNCHANGED <<allowed, calls, answers>>

Answer(p) ==
    /\ call[p] # Idle /\ call[p].left = {} /\ call[p].at = Nil
    /\ call' = [call EXCEPT ![p] = Idle]
    /\ answers' = answers \cup {[slot |-> SlotOf(p, r[1]), op |-> call[p].op, result |-> r[2]] :
                                r \in call[p].results}
    /\ UNCHANGED <<ledger, claimed, value, allowed, calls, effects>>

\* Faulty: a broken connection leaves the transaction open.
LeftOpen(p) ==
    /\ call[p] # Idle
    /\ call' = [call EXCEPT ![p] = Idle]
    /\ UNCHANGED <<ledger, claimed, value, allowed, calls, effects, answers>>

(* The server dies or the connection breaks: open work is rolled back.     *)
Lost(p) ==
    /\ call[p] # Idle
    /\ call' = [call EXCEPT ![p] = Idle]
    /\ claimed' = [claimed EXCEPT ![p] = Nil]
    /\ UNCHANGED <<ledger, value, allowed, calls, effects, answers>>

AccessChanges(t) ==
    /\ allowed' = IF t \in allowed THEN allowed \ {t} ELSE allowed \cup {t}
    /\ UNCHANGED <<ledger, claimed, value, call, calls, effects, answers>>

Work(p) ==
    (\E t \in Thing : CheckAccess(p, t)) \/ Claim(p) \/ Perform(p) \/ Answer(p)

Next ==
    \/ \E p \in Server :
        \/ Receive(p) \/ Claim(p) \/ Perform(p) \/ Answer(p) \/ Lost(p)
        \/ \E t \in Thing : CheckAccess(p, t)
    \/ \E t \in Thing : AccessChanges(t)

Spec == Init /\ [][Next]_vars

FairSpec == Spec /\ \A p \in Server : WF_vars(Work(p))

-----------------------------------------------------------------------------
TypeOK ==
    /\ ledger \in [Slot -> Op \cup {Nil}]
    /\ claimed \in [Server -> Slot \cup {Nil}]
    /\ \A p \in Server : call[p].left \subseteq Thing /\ call[p].at \in call[p].left \cup {Nil}
    /\ calls \in 0..MaxCalls

\* However often a request is sent, and however its copies overlap, it takes
\* effect once: a late retry never repeats a change others have since undone.
OneEffectPerKey == \A s \in Slot : effects[s] <= 1

\* A client told that its request was done can rely on it, and a key answers
\* for one operation only.
DoneWasDone ==
    \A a \in answers : a.result = "done" => effects[a.slot] = 1 /\ ledger[a.slot] = a.op

\* No key is spent on a request that changed nothing: it may be sent again.
KeysBuyEffects == \A s \in Slot : ledger[s] # Nil => effects[s] = 1

\* Where the ledger is asked first, a request that took effect is never
\* refused to a retry, whatever the user has lost access to since.
RetriesAgree ==
    [][\A p \in Server, t \in Thing :
        /\ <<t, "failed">> \in call'[p].results \ call[p].results
        /\ call[p].op \in LedgerFirst
        => ledger[SlotOf(p, t)] # call[p].op]_vars

\* Waiting for the key's holder ends: every request served comes to its answer.
RequestsEnd == \A p \in Server : (call[p] # Idle) ~> (call[p] = Idle)
=============================================================================
