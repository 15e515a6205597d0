-------------------------------- MODULE Requests --------------------------------
(***************************************************************************)
(* What stands between a client and its data, side by side: sign-in and    *)
(* sessions, the rate limiter, idempotency keys and paged listings. They   *)
(* share no variable, so a behaviour of the suite is one of the active     *)
(* component, with the others left in their initial states.                *)
(***************************************************************************)
EXTENDS Integers

CONSTANTS
    Login, Subject, Email, User, SubjectOf,                  \* of AuthSessions
    Caller, Limit, Window, MaxKeys, MaxTime, MaxAllowed,     \* of FixedWindow
    RequestKey, Thing, Op, Server, MaxCalls,                 \* of IdempotencyLedger
    Row, NameRange, Time, View, PageSize, MaxChanges, MaxExpiries,  \* of Listing
    Nil

VARIABLES
    active,                                                  \* the component that moves
    email, suspended, identity, drive, login, session, wish, shut,
    entries, now, admitted, refused,
    ledger, claimed, value, allowed, call, calls, effects, answers,
    view, limit, name, at, present, after, finished, shown, disturbed, changes, expiries

-----------------------------------------------------------------------------
SignIn == INSTANCE AuthSessions WITH request <- wish

Limiter == INSTANCE FixedWindow WITH Key <- Caller, allowed <- admitted

Ledger == INSTANCE IdempotencyLedger WITH Key <- RequestKey

Pages == INSTANCE Listing WITH Item <- Row, Limit <- PageSize

Component == {"signIn", "limiter", "ledger", "pages"}

ASSUME RequestsAssumption ==
    /\ SignIn!SubjectAssumption /\ Limiter!LimiterAssumption
    /\ Ledger!OpsAssumption /\ Pages!ItemAssumption

signInVars == <<email, suspended, identity, drive, login, session, wish, shut>>
limiterVars == <<entries, now, admitted, refused>>
ledgerVars == <<ledger, claimed, value, allowed, call, calls, effects, answers>>
pagesVars == <<view, limit, name, at, present, after, finished, shown, disturbed,
               changes, expiries>>
vars == <<active, signInVars, limiterVars, ledgerVars, pagesVars>>

(* One of the walks, for the behaviours in which nobody walks.             *)
AnyOf(set) == CHOOSE x \in set : TRUE
SomeWalk ==
    /\ view = AnyOf(View) /\ limit = AnyOf(PageSize) /\ present = {}
    /\ name = [i \in Row |-> AnyOf(NameRange)] /\ at = [i \in Row |-> AnyOf(Time)]

Init ==
    /\ active \in Component
    /\ SignIn!Init /\ Limiter!Init /\ Ledger!Init /\ Pages!Init
    /\ active # "pages" => SomeWalk

Next ==
    /\ UNCHANGED active
    /\ IF active = "signIn" THEN SignIn!Next ELSE UNCHANGED signInVars
    /\ IF active = "limiter" THEN Limiter!Next ELSE UNCHANGED limiterVars
    /\ IF active = "ledger" THEN Ledger!Next ELSE UNCHANGED ledgerVars
    /\ IF active = "pages" THEN Pages!Next ELSE UNCHANGED pagesVars

Spec == Init /\ [][Next]_vars

-----------------------------------------------------------------------------
(* Every subject has one account, one drive and one address, and a session *)
(* opens the drive of whoever signed in (AuthSessions).                    *)
SessionsReachTheirHome ==
    SignIn!TypeOK /\ SignIn!OneHome /\ SignIn!SessionsReachTheirHome

(* No stretch of a window's length lets through more than two windows'     *)
(* worth, and nobody is refused without a reason (FixedWindow).            *)
WindowsHold == Limiter!TypeOK /\ Limiter!AtMostTwice /\ Limiter!RefusedForAReason

(* A key takes effect once, what is recorded as done was done, and every   *)
(* key spent bought an effect (IdempotencyLedger).                         *)
OneEffectPerKey ==
    /\ Ledger!TypeOK /\ Ledger!OneEffectPerKey
    /\ Ledger!DoneWasDone /\ Ledger!KeysBuyEffects

(* A walk shows what stays put exactly once (Listing).                     *)
ShownExactlyOnce == Pages!TypeOK /\ Pages!NothingRepeated /\ Pages!NothingMissed

(* No token outlives its session (AuthSessions), and a finished request    *)
(* answers every repetition alike (IdempotencyLedger).                     *)
AnswersStand == SignIn!SignedOutStaysOut /\ Ledger!RetriesAgree
=============================================================================
