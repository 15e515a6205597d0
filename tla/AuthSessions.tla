---------------------------- MODULE AuthSessions ----------------------------
(***************************************************************************)
(* Signing in with Google, and the sessions it opens. Several logins       *)
(* provision accounts at once, one SQL statement at a time: what a         *)
(* transaction wrote is seen by the others when it commits, and a row or   *)
(* an index entry it wrote makes them wait. Then sessions are opened,      *)
(* used, and ended from the same or from another device.                   *)
(***************************************************************************)
EXTENDS Naturals, FiniteSets

CONSTANTS
    Login,      \* sign-ins, each from a device of its own
    Subject,    \* Google accounts; each has a bucket named after it
    Email,      \* addresses; Google may move one to another subject
    User,       \* ids of user_account rows
    Nil,        \* no row, no value
    SubjectOf   \* who signs in

(* What a request of a signed-in device may ask for.                       *)
Ask == {<<"logout">>, <<"others">>} \cup ({"revoke"} \X Login)

SubjectAssumption ==
    /\ SubjectOf \in [Login -> Subject]
    /\ Nil \notin User \cup Subject \cup Email \cup Ask

VARIABLES
    email,      \* primary_email of each account, Nil before the row exists
    suspended,  \* accounts whose status is not 'active'
    identity,   \* the account of each subject (drive.oauth_identity)
    drive,      \* the bucket of each account's drive, with its root and owner
    login,      \* what each sign-in is doing, and the rows it wrote
    session,    \* the session each sign-in opened
    request,    \* what each device asks for
    shut        \* sessions their user, or time, has ended (history)

vars == <<email, suspended, identity, drive, login, session, request, shut>>
accounts == <<email, suspended, identity, drive>>

Fresh == [phase |-> "idle", email |-> Nil, row |-> Nil, user |-> Nil]
NoSession == [user |-> Nil, state |-> "none"]
InTransaction == {"begun", "known", "unknown", "account", "identified", "provided"}

Init ==
    /\ email = [u \in User |-> Nil]
    /\ suspended = {}
    /\ identity = [s \in Subject |-> Nil]
    /\ drive = [u \in User |-> Nil]
    /\ login = [l \in Login |-> Fresh]
    /\ session = [l \in Login |-> NoSession]
    /\ request = [l \in Login |-> Nil]
    /\ shut = {}

At(l, phase) == login[l].phase = phase
Goes(l, phase) == login' = [login EXCEPT ![l].phase = phase]
OpenTransactions(l) == {k \in Login \ {l} : login[k].phase \in InTransaction}

(* Faulty: without an index on the subject, nothing makes a sign-in wait.  *)
NoIndex(l) == TRUE

(* A statement that meets a row or an index entry of an open transaction   *)
(* waits until that transaction ends.                                      *)
RowFree(l, u) == \A k \in OpenTransactions(l) : login[k].row # u
EmailFree(l, e) == \A k \in OpenTransactions(l) : login[k].row = Nil \/ login[k].email # e
IdentityFree(l) == \A k \in OpenTransactions(l) :
    SubjectOf[k] = SubjectOf[l] => login[k].phase \in {"begun", "unknown", "account"}

GoogleCallback(l) ==
    /\ At(l, "idle")
    /\ \E e \in Email : login' = [login EXCEPT ![l].phase = "begun", ![l].email = e]
    /\ UNCHANGED <<accounts, session, request, shut>>

FindIdentity(l) ==
    /\ At(l, "begun") /\ (identity[SubjectOf[l]] = Nil \/ IdentityFree(l))
    /\ IF identity[SubjectOf[l]] = Nil THEN Goes(l, "unknown")
       ELSE login' = [login EXCEPT ![l].phase = "known", ![l].user = identity[SubjectOf[l]]]
    /\ UNCHANGED <<accounts, session, request, shut>>

Aborted(l) == login' = [login EXCEPT ![l] = [Fresh EXCEPT !.phase = "ended"]]

(* The account of a known subject takes the address it signs in with,      *)
(* unless another account has it.                                          *)
UpdateAccount(l) ==
    LET u == login[l].user  e == login[l].email IN
    /\ At(l, "known") /\ RowFree(l, u)
    /\ \/ u \in suspended /\ Aborted(l)
       \/ /\ u \notin suspended /\ EmailFree(l, e)
          /\ IF \E v \in User \ {u} : email[v] = e THEN Aborted(l)
             ELSE login' = [login EXCEPT ![l].phase = "identified", ![l].row = u]
    /\ UNCHANGED <<accounts, session, request, shut>>

(* An unknown subject gets the account with its address, or a new one.     *)
UpsertUser(l) ==
    LET e == login[l].email
        fresh == {u \in User : email[u] = Nil /\ RowFree(l, u)}
        Takes(u) == login' = [login EXCEPT ![l].phase = "account", ![l].row = u, ![l].user = u]
    IN
    /\ At(l, "unknown") /\ EmailFree(l, e)
    /\ \/ \E u \in User :
            /\ email[u] = e /\ RowFree(l, u)
            /\ IF u \in suspended THEN Aborted(l) ELSE Takes(u)
       \/ /\ \A u \in User : email[u] # e
          /\ fresh # {} /\ Takes(CHOOSE u \in fresh : TRUE)
    /\ UNCHANGED <<accounts, session, request, shut>>

(* Faulty: an account may get a second subject.                            *)
AnySubjects(l, u) == TRUE

(* oauth_identity_user_provider_unique: an account has one Google subject. *)
OneSubject(l, u) == \A s \in Subject \ {SubjectOf[l]} : identity[s] # u

(* ON CONFLICT: the subject is known by now, its account is the one.       *)
AccountOf(l) == IF identity[SubjectOf[l]] = Nil THEN login[l].user ELSE identity[SubjectOf[l]]

UpsertIdentity(l) ==
    /\ At(l, "account") /\ IdentityFree(l)
    /\ IF OneSubject(l, AccountOf(l))
       THEN login' = [login EXCEPT ![l].phase = "identified", ![l].user = AccountOf(l)]
       ELSE Aborted(l)
    /\ UNCHANGED <<accounts, session, request, shut>>

(* A drive with its owner and its root, unless the account has one.        *)
(* drive_space_storage_bucket_unique: a bucket serves one drive.           *)
UpsertDrive(l) ==
    /\ At(l, "identified")
    /\ IF drive[login[l].user] = Nil /\ \E u \in User : drive[u] = SubjectOf[l]
       THEN Aborted(l) ELSE Goes(l, "provided")
    /\ UNCHANGED <<accounts, session, request, shut>>

(* Faulty: the drive is left for later.                                    *)
CommitWithoutDrive(l) ==
    /\ At(l, "provided") /\ Goes(l, "provisioned")
    /\ email' = [email EXCEPT ![login[l].row] = login[l].email]
    /\ identity' = [identity EXCEPT ![SubjectOf[l]] = login[l].user]
    /\ UNCHANGED <<suspended, drive, session, request, shut>>

CommitAccount(l) ==
    LET t == login[l] IN
    /\ At(l, "provided")
    /\ Goes(l, "provisioned")
    /\ email' = [email EXCEPT ![t.row] = t.email]
    /\ identity' = [identity EXCEPT ![SubjectOf[l]] = IF @ = Nil THEN t.user ELSE @]
    /\ drive' = [drive EXCEPT ![t.user] = IF @ = Nil THEN SubjectOf[l] ELSE @]
    /\ UNCHANGED <<suspended, session, request, shut>>

(* An error, a crash, or a deadlock the database breaks.                   *)
RollBack(l) ==
    /\ login[l].phase \in InTransaction
    /\ Aborted(l)
    /\ UNCHANGED <<accounts, session, request, shut>>

CreateSession(l) ==
    LET u == login[l].user IN
    /\ At(l, "provisioned")
    /\ IF u \in suspended THEN Goes(l, "ended") /\ UNCHANGED session
       ELSE /\ Goes(l, "issuing")
            /\ session' = [session EXCEPT ![l] = [user |-> u, state |-> "live"]]
    /\ UNCHANGED <<accounts, request, shut>>

Revoked(ls) == session' = [l \in Login |->
    IF l \in ls THEN [session[l] EXCEPT !.state = "revoked"] ELSE session[l]]

(* The token reaches the browser, or cannot be signed.                     *)
IssueJWT(l) ==
    /\ At(l, "issuing")
    /\ \/ Goes(l, "signedIn") /\ UNCHANGED <<session, shut>>
       \/ Goes(l, "ended") /\ Revoked({l}) /\ shut' = shut \cup {l}
    /\ UNCHANGED <<accounts, request>>

(* The process dies: nobody holds the token.                               *)
SignInDies(l) ==
    /\ login[l].phase \in {"provisioned", "issuing"}
    /\ Goes(l, "ended")
    /\ UNCHANGED <<accounts, session, request, shut>>

(* Faulty: the signature of the token is enough.                           *)
SignedToken(l) == session[l].state \in {"live", "revoked"}

Valid(l) == session[l].state = "live" /\ session[l].user \notin suspended

(* What a request asks for is read when it is let through, and done later. *)
AuthenticateSession(l) ==
    /\ At(l, "signedIn") /\ request[l] = Nil /\ Valid(l)
    /\ \E op \in Ask : request' = [request EXCEPT ![l] = op]
    /\ UNCHANGED <<accounts, login, session, shut>>

(* Faulty: only sessions whose token has been handed out are ended.        *)
HandedOut(l) == {k \in Login \ {l} : /\ session[k].user = session[l].user
                                     /\ session[k].state = "live" /\ At(k, "signedIn")}

Others(l) == {k \in Login \ {l} : /\ session[k].user = session[l].user
                                  /\ session[k].state = "live"}

Finish(l) == request' = [request EXCEPT ![l] = Nil]

Logout(l) ==
    /\ request[l] = <<"logout">> /\ Finish(l)
    /\ Revoked({l}) /\ shut' = shut \cup {l}
    /\ UNCHANGED <<accounts, login>>

RevokeAuthSessionByID(l) ==
    /\ Finish(l)
    /\ \E k \in Login :
         /\ request[l] = <<"revoke", k>>
         /\ IF session[k].user = session[l].user /\ session[k].state \in {"live", "lapsed"}
            THEN Revoked({k}) /\ shut' = shut \cup {k}
            ELSE UNCHANGED <<session, shut>>
    /\ UNCHANGED <<accounts, login>>

RevokeOtherAuthSessions(l) ==
    /\ request[l] = <<"others">> /\ Finish(l)
    /\ IF session[l].user \in suspended THEN UNCHANGED <<session, shut>>
       ELSE /\ Revoked(Others(l))
            /\ shut' = shut \cup {k \in Login \ {l} : session[k].user = session[l].user}
    /\ UNCHANGED <<accounts, login>>

(* The request fails, or its process dies, before it has changed a row.    *)
RequestFails(l) ==
    /\ request[l] # Nil /\ Finish(l)
    /\ UNCHANGED <<accounts, login, session, shut>>

SessionLapses(l) ==
    /\ session[l].state = "live"
    /\ session' = [session EXCEPT ![l].state = "lapsed"]
    /\ shut' = shut \cup {l}
    /\ UNCHANGED <<accounts, login, request>>

(* An operator suspends an account; no handler does.                       *)
Suspend(u) ==
    /\ email[u] # Nil /\ u \notin suspended
    /\ \A l \in Login : login[l].phase \in InTransaction => login[l].row # u
    /\ suspended' = suspended \cup {u}
    /\ UNCHANGED <<email, identity, drive, login, session, request, shut>>

SignIn(l) ==
    \/ GoogleCallback(l) \/ FindIdentity(l) \/ UpdateAccount(l) \/ UpsertUser(l)
    \/ UpsertIdentity(l) \/ UpsertDrive(l) \/ CommitAccount(l) \/ RollBack(l)
    \/ CreateSession(l) \/ IssueJWT(l) \/ SignInDies(l)

Use(l) ==
    \/ AuthenticateSession(l) \/ Logout(l) \/ RevokeAuthSessionByID(l)
    \/ RevokeOtherAuthSessions(l) \/ RequestFails(l) \/ SessionLapses(l)

Next == (\E l \in Login : SignIn(l) \/ Use(l)) \/ \E u \in User : Suspend(u)

Spec == Init /\ [][Next]_vars

-----------------------------------------------------------------------------
(* The tables hold rows of their kinds, and no subject has an account      *)
(* whose row or drive is missing: they are committed together.             *)
TypeOK ==
    /\ email \in [User -> Email \cup {Nil}] /\ suspended \subseteq User
    /\ identity \in [Subject -> User \cup {Nil}] /\ drive \in [User -> Subject \cup {Nil}]
    /\ \A l \in Login : /\ login[l].row \in User \cup {Nil}
                        /\ session[l].state \in {"none", "live", "revoked", "lapsed"}
    /\ \A s \in Subject : identity[s] # Nil => email[identity[s]] # Nil /\ drive[identity[s]] # Nil

(* However first sign-ins race, a subject that has an account has one of   *)
(* its own, whose drive is the bucket made for that subject, and no two    *)
(* accounts share an address.                                              *)
OneHome ==
    /\ \A s \in Subject : identity[s] # Nil => drive[identity[s]] = s
    /\ \A u, v \in User : u # v /\ email[u] # Nil => email[u] # email[v]

(* Every session a subject opens is of the account that is its own, also   *)
(* when that account was made by another sign-in of the subject meanwhile. *)
SessionsReachTheirHome ==
    \A l \in Login : session[l].state # "none" => session[l].user = identity[SubjectOf[l]]

(* No request is let through on a session that was signed out, ended from  *)
(* another device, or has expired: only one already let through may still  *)
(* do its work.                                                            *)
SignedOutStaysOut == [][\A l \in shut : request[l] = Nil => request'[l] = Nil]_vars

(* docs/superpowers/specs/2026-08-24-drive-metadata-database-design.md:343 *)
(* has the account and its session made in one transaction.                *)
SignInIsAtomic ==
    [][\A l \in Login : At(l, "provided") /\ At(l, "provisioned")'
                          => session'[l].state = "live"]_vars
=============================================================================
