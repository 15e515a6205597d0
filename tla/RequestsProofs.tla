----------------------------- MODULE RequestsProofs -----------------------------
(***************************************************************************)
(* Proofs for sign-in and sessions, the rate limiter, the idempotency      *)
(* ledger and paged listings: each component has an inductive invariant of *)
(* its own, which the steps of the others leave alone.                     *)
(***************************************************************************)
EXTENDS Requests, Sequences, FiniteSetTheorems, TLAPS

-----------------------------------------------------------------------------
(* Sign-in and sessions. *)

\* The steps of a sign-in, and what a login and its session hold.
LoginPhase == SignIn!InTransaction \cup {"idle", "provisioned", "issuing", "signedIn", "ended"}
LoginRecord == [phase : LoginPhase, email : Email \cup {Nil},
                row : User \cup {Nil}, user : User \cup {Nil}]
SessionRecord == [user : User \cup {Nil}, state : {"none", "live", "revoked", "lapsed"}]

\* The steps after the identity was written, before the commit.
Written == {"identified", "provided"}

\* The columns of every row, and what a login and a session hold.
SignInTypes ==
    /\ email \in [User -> Email \cup {Nil}] /\ suspended \subseteq User
    /\ identity \in [Subject -> User \cup {Nil}] /\ drive \in [User -> Subject \cup {Nil}]
    /\ login \in [Login -> LoginRecord] /\ session \in [Login -> SessionRecord]
    /\ wish \in [Login -> SignIn!Ask \cup {Nil}] /\ shut \subseteq Login

\* Committed rows: an identity names an account with an address, whose drive
\* is that identity's; no two accounts share an address.
SignInAccounts ==
    /\ \A s \in Subject : identity[s] # Nil => email[identity[s]] # Nil /\ drive[identity[s]] = s
    /\ \A u \in User : drive[u] # Nil => identity[drive[u]] = u
    /\ \A u, v \in User : u # v /\ email[u] # Nil => email[u] # email[v]

\* What a sign-in has learnt so far is still so: the row it holds, the user it
\* goes on with, and that nobody else has taken its address meanwhile.
SignInPath(l) ==
    LET t == login[l]  s == SubjectOf[l] IN
    /\ t.phase \in SignIn!InTransaction => t.email # Nil
    /\ t.phase \in {"idle", "begun", "known", "unknown"} => t.row = Nil
    /\ t.phase \in {"known", "provisioned"} => t.user # Nil /\ t.user = identity[s]
    /\ t.phase = "account" => t.row # Nil /\ t.row = t.user
    /\ t.phase \in Written =>
         /\ t.row # Nil /\ t.user # Nil
         /\ \/ t.user = identity[s]
            \/ identity[s] = Nil /\ t.row = t.user /\ SignIn!OneSubject(l, t.user)
    /\ t.phase \in SignIn!InTransaction /\ t.row # Nil =>
         \A v \in User \ {t.row} : email[v] # t.email

\* Two open sign-ins never hold one row or one address, and of two for one
\* subject only one has written an identity that is not committed yet.
SignInApart(l, k) ==
    login[l].phase \in SignIn!InTransaction /\ login[k].phase \in SignIn!InTransaction =>
        /\ login[l].row # Nil => login[l].row # login[k].row
        /\ login[l].row # Nil /\ login[k].row # Nil => login[l].email # login[k].email
        /\ /\ SubjectOf[l] = SubjectOf[k] /\ login[l].phase \in Written /\ login[k].phase \in Written
           => identity[SubjectOf[l]] # Nil

\* A session is issued at the end of its own sign-in, for the user the
\* subject's identity names, and its end is final.
SignInSession(l) ==
    LET s == session[l] IN
    /\ login[l].phase \in SignIn!InTransaction \cup {"idle", "provisioned"} => s.state = "none"
    /\ login[l].phase \in {"issuing", "signedIn"} => s.state # "none"
    /\ s.state # "none" => s.user # Nil /\ s.user = identity[SubjectOf[l]]
    /\ s.state = "none" => s.user = Nil /\ wish[l] = Nil
    /\ l \in shut => s.state \notin {"none", "live"}

\* The inductive invariant of sign-in.
SignInInv ==
    /\ SignInTypes /\ SignInAccounts
    /\ \A l \in Login : SignInPath(l) /\ SignInSession(l)
    /\ \A l, k \in Login : l # k => SignInApart(l, k)

\* What sign-in assumes of its constants.
LEMMA SignInConstants ==
    /\ SubjectOf \in [Login -> Subject] /\ Nil \notin User /\ Nil \notin Subject
    /\ Nil \notin Email /\ Nil \notin SignIn!Ask
BY RequestsAssumption DEF SignIn!SubjectAssumption

\* Before anyone signs in the invariant holds.
LEMMA SignInInit == SignIn!Init => SignInInv
<1> SUFFICES ASSUME SignIn!Init PROVE SignInInv
  OBVIOUS
<1> USE SignInConstants DEF SignIn!Init, SignIn!Fresh, SignIn!NoSession
<1>1. SignInTypes
  BY DEF SignInTypes, LoginRecord, SessionRecord, LoginPhase
<1>2. SignInAccounts
  BY DEF SignInAccounts
<1>3. \A l \in Login : SignInPath(l) /\ SignInSession(l)
  BY DEF SignInPath, SignInSession, SignIn!InTransaction, Written
<1>4. \A l, k \in Login : l # k => SignInApart(l, k)
  BY DEF SignInApart, SignIn!InTransaction
<1> QED
  BY <1>1, <1>2, <1>3, <1>4 DEF SignInInv

\* A step that moves one login only has that login to answer for.
LEMMA SignInMoves ==
  ASSUME SignInInv, NEW l \in Login,
         UNCHANGED <<email, suspended, identity, drive, session, wish, shut>>,
         login' \in [Login -> LoginRecord], \A k \in Login \ {l} : login'[k] = login[k],
         SignInPath(l)', SignInSession(l)', \A k \in Login \ {l} : SignInApart(l, k)'
  PROVE  SignInInv'
<1>1. SignInTypes' /\ SignInAccounts'
  BY DEF SignInInv, SignInTypes, SignInAccounts
<1>2. \A k \in Login : SignInPath(k)' /\ SignInSession(k)'
  BY DEF SignInInv, SignInPath, SignInSession, SignIn!OneSubject
<1>3. \A j, k \in Login : j # k => SignInApart(j, k)'
  BY DEF SignInInv, SignInApart
<1> QED
  BY <1>1, <1>2, <1>3 DEF SignInInv

\* Starting, looking up the identity, giving the user a drive, rolling back and
\* dying write nothing of an account.
LEMMA SignInBegins ==
  ASSUME SignInInv, NEW l \in Login,
         SignIn!GoogleCallback(l) \/ SignIn!FindIdentity(l) \/ SignIn!UpsertDrive(l)
         \/ SignIn!RollBack(l) \/ SignIn!SignInDies(l)
  PROVE  SignInInv'
<1> USE SignInConstants DEF SignInInv, SignInTypes
<1> USE DEF SignIn!At, SignIn!Goes, SignIn!Aborted, SignIn!accounts, SignIn!Fresh
<1>1. /\ UNCHANGED <<email, suspended, identity, drive, session, wish, shut>>
      /\ login' \in [Login -> LoginRecord] /\ \A k \in Login \ {l} : login'[k] = login[k]
  BY SMTT(60) DEF SignIn!GoogleCallback, SignIn!FindIdentity, SignIn!UpsertDrive, SignIn!RollBack,
         SignIn!SignInDies, LoginRecord, LoginPhase, SignIn!InTransaction
<1>2. SignInPath(l)'
  BY <1>1 DEF SignIn!GoogleCallback, SignIn!FindIdentity, SignIn!UpsertDrive, SignIn!RollBack,
         SignIn!SignInDies, LoginRecord, LoginPhase, SignIn!InTransaction, SignInPath, Written, SignIn!OneSubject
<1>3. SignInSession(l)'
  BY <1>1 DEF SignIn!GoogleCallback, SignIn!FindIdentity, SignIn!UpsertDrive, SignIn!RollBack,
         SignIn!SignInDies, LoginRecord, LoginPhase, SignIn!InTransaction, SignInSession
<1>4. \A k \in Login \ {l} : SignInApart(l, k)'
  BY <1>1 DEF SignIn!GoogleCallback, SignIn!FindIdentity, SignIn!UpsertDrive, SignIn!RollBack,
         SignIn!SignInDies, LoginRecord, LoginPhase, SignIn!InTransaction, SignInApart, SignInPath, Written
<1> QED
  BY <1>1, <1>2, <1>3, <1>4, SignInMoves

\* Updating the account found, or upserting one by address, takes a row nobody
\* else has taken.
LEMMA SignInTakesRow ==
  ASSUME SignInInv, NEW l \in Login, SignIn!UpdateAccount(l) \/ SignIn!UpsertUser(l)
  PROVE  SignInInv'
<1> USE SignInConstants DEF SignInInv, SignInTypes
<1>1. /\ UNCHANGED <<email, suspended, identity, drive, session, wish, shut>>
      /\ login[l].phase \in {"known", "unknown"} /\ login[l].email \in Email /\ login[l].row = Nil
  BY DEF SignIn!UpdateAccount, SignIn!UpsertUser, SignIn!At, SignIn!accounts, SignInPath,
         SignIn!InTransaction, LoginRecord
<1>2. CASE SignIn!Aborted(l)
  <2>1. login' \in [Login -> LoginRecord] /\ \A k \in Login \ {l} : login'[k] = login[k]
    BY <1>2 DEF SignIn!Aborted, SignIn!Fresh, LoginRecord, LoginPhase
  <2>2. login'[l].phase = "ended"
    BY <1>2 DEF SignIn!Aborted, SignIn!Fresh
  <2>3. SignInPath(l)' /\ SignInSession(l)' /\ \A k \in Login \ {l} : SignInApart(l, k)'
    BY <1>1, <2>1, <2>2 DEF SignInPath, SignInSession, SignInApart, SignIn!InTransaction, Written
  <2> QED
    BY <1>1, <2>1, <2>3, SignInMoves
<1>3. ASSUME NEW u \in User, SignIn!RowFree(l, u), SignIn!EmailFree(l, login[l].email),
             \A v \in User \ {u} : email[v] # login[l].email,
             \/ /\ login[l].phase = "known" /\ u = login[l].user
                /\ login' = [login EXCEPT ![l].phase = "identified", ![l].row = u]
             \/ login' = [login EXCEPT ![l].phase = "account", ![l].row = u, ![l].user = u]
      PROVE  SignInInv'
  <2>1. login' \in [Login -> LoginRecord] /\ \A k \in Login \ {l} : login'[k] = login[k]
    BY SMTT(60), <1>3 DEF LoginRecord, LoginPhase, SignIn!InTransaction
  <2>2. /\ login'[l].email = login[l].email /\ login'[l].row = u /\ login'[l].user = u
        /\ \/ login'[l].phase = "account"
           \/ login'[l].phase = "identified" /\ u = identity[SubjectOf[l]]
    BY <1>3 DEF LoginRecord, SignInPath
  <2>3. SignInPath(l)'
    BY <1>1, <1>3, <2>2 DEF SignInPath, SignIn!InTransaction, Written
  <2>4. SignInSession(l)'
    BY <1>1, <2>2 DEF SignInSession, SignIn!InTransaction
  <2>5. \A k \in Login \ {l} : SignInApart(l, k)'
    BY <1>1, <1>3, <2>1, <2>2
    DEF SignInApart, SignIn!RowFree, SignIn!EmailFree, SignIn!OpenTransactions, SignIn!InTransaction, Written
  <2> QED
    BY <1>1, <2>1, <2>3, <2>4, <2>5, SignInMoves
<1>4. CASE SignIn!UpdateAccount(l)
  <2>1. login[l].phase = "known" /\ login[l].user \in User
    BY <1>4 DEF SignIn!UpdateAccount, SignIn!At, SignInPath, LoginRecord
  <2> QED
    BY <1>2, <1>3, <1>4, <2>1 DEF SignIn!UpdateAccount
<1>5. CASE SignIn!UpsertUser(l)
  <2> DEFINE Takes(u) == login' = [login EXCEPT ![l].phase = "account", ![l].row = u, ![l].user = u]
  <2>1. CASE SignIn!Aborted(l)
    BY <1>2, <2>1
  <2>2. ASSUME NEW u \in User, email[u] = login[l].email, SignIn!RowFree(l, u), Takes(u)
        PROVE  SignInInv'
    <3>1. \A v \in User \ {u} : email[v] # login[l].email
      BY <1>1, <2>2 DEF SignInAccounts
    <3>2. SignIn!EmailFree(l, login[l].email)
      BY <1>5 DEF SignIn!UpsertUser
    <3> QED
      BY <1>3, <2>2, <3>1, <3>2
  <2>3. ASSUME \A u \in User : email[u] # login[l].email,
               {u \in User : email[u] = Nil /\ SignIn!RowFree(l, u)} # {},
               Takes(CHOOSE u \in {u \in User : email[u] = Nil /\ SignIn!RowFree(l, u)} : TRUE)
        PROVE  SignInInv'
    <3> DEFINE w == CHOOSE u \in {u \in User : email[u] = Nil /\ SignIn!RowFree(l, u)} : TRUE
    <3>1. w \in User /\ SignIn!RowFree(l, w)
      BY <2>3
    <3>2. SignIn!EmailFree(l, login[l].email)
      BY <1>5 DEF SignIn!UpsertUser
    <3> QED
      BY <1>3, <2>3, <3>1, <3>2
  <2> QED
    BY <1>5, <2>1, <2>2, <2>3 DEF SignIn!UpsertUser
<1> QED
  BY <1>4, <1>5

\* The upsert of the identity waits for the other sign-in of its subject, and
\* takes the user that one has committed.
LEMMA SignInIdentifies ==
  ASSUME SignInInv, NEW l \in Login, SignIn!UpsertIdentity(l)
  PROVE  SignInInv'
<1> USE SignInConstants DEF SignInInv, SignInTypes
<1>1. /\ UNCHANGED <<email, suspended, identity, drive, session, wish, shut>>
      /\ login[l].phase = "account" /\ login[l].row # Nil /\ login[l].row = login[l].user
      /\ login[l].row \in User /\ login[l].email # Nil
  BY DEF SignIn!UpsertIdentity, SignIn!At, SignIn!accounts, SignInPath, SignIn!InTransaction, LoginRecord
<1>2. CASE SignIn!Aborted(l)
  <2>1. login' \in [Login -> LoginRecord] /\ \A k \in Login \ {l} : login'[k] = login[k]
    BY <1>2 DEF SignIn!Aborted, SignIn!Fresh, LoginRecord, LoginPhase
  <2>2. login'[l].phase = "ended"
    BY <1>2 DEF SignIn!Aborted, SignIn!Fresh
  <2>3. SignInPath(l)' /\ SignInSession(l)' /\ \A k \in Login \ {l} : SignInApart(l, k)'
    BY <1>1, <2>1, <2>2 DEF SignInPath, SignInSession, SignInApart, SignIn!InTransaction, Written
  <2> QED
    BY <1>1, <2>1, <2>3, SignInMoves
<1>3. ASSUME NEW u \in User, SignIn!OneSubject(l, u),
             u = identity[SubjectOf[l]] \/ (identity[SubjectOf[l]] = Nil /\ u = login[l].user),
             login' = [login EXCEPT ![l].phase = "identified", ![l].user = u]
      PROVE  SignInInv'
  <2>1. /\ u = identity[SubjectOf[l]] \/ (identity[SubjectOf[l]] = Nil /\ u = login[l].user)
        /\ SignIn!OneSubject(l, u)
    BY <1>3
  <2>2. login' \in [Login -> LoginRecord] /\ \A k \in Login \ {l} : login'[k] = login[k]
    <3>1. login' = [login EXCEPT ![l].phase = "identified", ![l].user = u] /\ login \in [Login -> LoginRecord]
      BY <1>3
    <3> HIDE DEF SignInInv, SignInTypes
    <3> QED
      BY ZenonT(60), <3>1 DEF LoginRecord, LoginPhase, SignIn!InTransaction
  <2>3. /\ login'[l].email = login[l].email /\ login'[l].row = login[l].row
        /\ login'[l].user = u /\ login'[l].phase = "identified"
    BY <1>3 DEF LoginRecord
  <2>4. SignInPath(l)'
    BY <1>1, <2>1, <2>3 DEF SignInPath, SignIn!InTransaction, Written, SignIn!OneSubject
  <2>5. SignInSession(l)'
    BY <1>1, <2>3 DEF SignInSession, SignIn!InTransaction
  <2>6. \A k \in Login \ {l} : SignInApart(l, k)'
    <3>1. SignIn!IdentityFree(l)
      BY DEF SignIn!UpsertIdentity
    <3> QED
      BY <1>1, <2>2, <2>3, <3>1
      DEF SignInApart, SignIn!IdentityFree, SignIn!OpenTransactions, SignIn!InTransaction, Written
  <2> QED
    BY <1>1, <2>2, <2>4, <2>5, <2>6, SignInMoves
<1>4. CASE SignIn!OneSubject(l, SignIn!AccountOf(l))
  <2>1. /\ SignIn!AccountOf(l) \in User
        /\ \/ SignIn!AccountOf(l) = identity[SubjectOf[l]]
           \/ identity[SubjectOf[l]] = Nil /\ SignIn!AccountOf(l) = login[l].user
    BY <1>1 DEF SignIn!AccountOf
  <2>2. login' = [login EXCEPT ![l].phase = "identified", ![l].user = SignIn!AccountOf(l)]
    BY <1>4 DEF SignIn!UpsertIdentity
  <2> QED
    BY <1>3, <1>4, <2>1, <2>2
<1>5. CASE ~SignIn!OneSubject(l, SignIn!AccountOf(l))
  BY <1>2, <1>5 DEF SignIn!UpsertIdentity
<1> QED
  BY <1>4, <1>5

\* The commit makes an account, its address, its identity and its drive one.
LEMMA SignInCommits ==
  ASSUME SignInInv, NEW l \in Login, SignIn!CommitAccount(l)
  PROVE  SignInInv'
<1> USE SignInConstants DEF SignInInv, SignInTypes
<1> DEFINE s == SubjectOf[l]
           r == login[l].row
           u == login[l].user
<1>1. /\ login[l].phase = "provided" /\ s \in Subject /\ r \in User /\ u \in User
      /\ login[l].email \in Email
      /\ u = identity[s] \/ (identity[s] = Nil /\ r = u /\ \A x \in Subject \ {s} : identity[x] # u)
      /\ \A v \in User \ {r} : email[v] # login[l].email
      /\ UNCHANGED <<suspended, session, wish, shut>>
  BY DEF SignIn!CommitAccount, SignIn!At, SignInPath, SignIn!InTransaction, LoginRecord, Written,
         SignIn!OneSubject
<1>2. /\ login' = [login EXCEPT ![l].phase = "provisioned"]
      /\ email' = [email EXCEPT ![r] = login[l].email]
      /\ identity' = [identity EXCEPT ![s] = u]
      /\ drive' = [drive EXCEPT ![u] = s]
  <2>1. identity[s] # Nil => identity[s] = u
    BY <1>1
  <2>2. drive[u] # Nil => drive[u] = s
    BY <1>1 DEF SignInAccounts
  <2> QED
    BY <1>1, <2>1, <2>2 DEF SignIn!CommitAccount, SignIn!Goes
<1>3. /\ login' \in [Login -> LoginRecord] /\ \A k \in Login \ {l} : login'[k] = login[k]
      /\ login'[l].phase = "provisioned" /\ login'[l].user = u
  BY <1>2 DEF LoginRecord, LoginPhase
<1>4. SignInTypes'
  BY <1>1, <1>2, <1>3
<1>5. SignInAccounts'
  BY <1>1, <1>2 DEF SignInAccounts
<1>6. \A k \in Login : SignInSession(k)'
  BY <1>1, <1>2, <1>3 DEF SignInSession, SignIn!InTransaction
<1>7. SignInPath(l)'
  BY <1>1, <1>2, <1>3 DEF SignInPath, SignIn!InTransaction, Written
<1>8. ASSUME NEW k \in Login \ {l} PROVE SignInPath(k)'
  BY <1>1, <1>2, <1>3 DEF SignInPath, SignInApart, SignIn!InTransaction, Written, SignIn!OneSubject
<1>9. \A j, k \in Login : j # k => SignInApart(j, k)'
  BY <1>1, <1>2, <1>3 DEF SignInApart, SignIn!InTransaction
<1> QED
  BY <1>4, <1>5, <1>6, <1>7, <1>8, <1>9

\* A step that moves one session only has that session to answer for.
LEMMA SignInSessionMoves ==
  ASSUME SignInInv, UNCHANGED <<email, suspended, identity, drive>>,
         login' \in [Login -> LoginRecord], session' \in [Login -> SessionRecord],
         wish' \in [Login -> SignIn!Ask \cup {Nil}], shut' \subseteq Login,
         \A k \in Login : /\ login'[k] # login[k] => login'[k].phase \in {"issuing", "signedIn", "ended"}
                         /\ SignInSession(k)'
  PROVE  SignInInv'
<1>1. SignInTypes' /\ SignInAccounts'
  BY DEF SignInInv, SignInTypes, SignInAccounts
<1>2. \A k \in Login : SignInPath(k)'
  BY DEF SignInInv, SignInPath, SignIn!OneSubject, SignIn!InTransaction, Written
<1>3. \A j, k \in Login : j # k => SignInApart(j, k)'
  BY DEF SignInInv, SignInApart, SignIn!InTransaction
<1> QED
  BY <1>1, <1>2, <1>3 DEF SignInInv

\* The session is issued to the user whom the subject's identity names.
LEMMA SignInOpens ==
  ASSUME SignInInv, NEW l \in Login, SignIn!CreateSession(l) \/ SignIn!IssueJWT(l)
  PROVE  SignInInv'
<1> USE SignInConstants DEF SignInInv, SignInTypes
<1> DEFINE u == login[l].user
           Fine == /\ login' \in [Login -> LoginRecord] /\ session' \in [Login -> SessionRecord]
                   /\ \A k \in Login \ {l} : login'[k] = login[k]
                   /\ login'[l].phase \in {"issuing", "signedIn", "ended"}
                   /\ shut' \subseteq Login /\ \A k \in Login : SignInSession(k)'
<1>1. UNCHANGED <<email, suspended, identity, drive, wish>>
  BY DEF SignIn!CreateSession, SignIn!IssueJWT, SignIn!accounts
<1> SUFFICES Fine
  BY <1>1, SignInSessionMoves
<1>2. ASSUME NEW phase \in {"issuing", "signedIn", "ended"}, SignIn!Goes(l, phase)
      PROVE  /\ login' \in [Login -> LoginRecord] /\ \A k \in Login \ {l} : login'[k] = login[k]
             /\ login'[l].phase = phase
  <2>1. login' = [login EXCEPT ![l].phase = phase] /\ phase \in LoginPhase
    BY <1>2 DEF SignIn!Goes, LoginPhase
  <2>2. login \in [Login -> LoginRecord]
    OBVIOUS
  <2> HIDE DEF SignInInv, SignInTypes
  <2> QED
    BY <2>1, <2>2 DEF LoginRecord
<1>3. CASE SignIn!CreateSession(l)
  <2>1. login[l].phase = "provisioned" /\ u \in User /\ u = identity[SubjectOf[l]] /\ UNCHANGED shut
    BY <1>3 DEF SignIn!CreateSession, SignIn!At, SignInPath, LoginRecord
  <2>2. CASE u \in suspended
    <3>1. SignIn!Goes(l, "ended") /\ UNCHANGED session
      BY <1>3, <2>2 DEF SignIn!CreateSession
    <3>2. /\ login' \in [Login -> LoginRecord] /\ \A k \in Login \ {l} : login'[k] = login[k]
          /\ login'[l].phase = "ended"
      BY <1>2, <3>1
    <3>3. ASSUME NEW k \in Login PROVE SignInSession(k)'
      BY <1>1, <2>1, <3>1, <3>2 DEF SignInSession, SignIn!InTransaction
    <3> QED
      BY <2>1, <3>1, <3>2, <3>3
  <2>3. CASE u \notin suspended
    <3>1. SignIn!Goes(l, "issuing") /\ session' = [session EXCEPT ![l] = [user |-> u, state |-> "live"]]
      BY <1>3, <2>3 DEF SignIn!CreateSession
    <3>2. session' \in [Login -> SessionRecord]
      BY <2>1, <3>1 DEF SessionRecord
    <3>3. \A k \in Login : SignInSession(k)'
      BY <1>1, <1>2, <2>1, <3>1 DEF SignInSession, SignIn!InTransaction
    <3> QED
      BY <1>2, <2>1, <3>1, <3>2, <3>3
  <2> QED
    BY <2>2, <2>3
<1>4. CASE SignIn!IssueJWT(l)
  <2>1. login[l].phase = "issuing"
    BY <1>4 DEF SignIn!IssueJWT, SignIn!At
  <2>2. CASE SignIn!Goes(l, "signedIn") /\ UNCHANGED <<session, shut>>
    BY <1>1, <1>2, <2>1, <2>2 DEF SignInSession, SignIn!InTransaction
  <2>3. CASE SignIn!Goes(l, "ended") /\ SignIn!Revoked({l}) /\ shut' = shut \cup {l}
    <3>1. session' \in [Login -> SessionRecord]
      BY <2>3 DEF SessionRecord, SignIn!Revoked
    <3>2. \A k \in Login : SignInSession(k)'
      BY <1>1, <1>2, <2>1, <2>3 DEF SignInSession, SignIn!InTransaction, SignIn!Revoked, SessionRecord
    <3> QED
      BY <1>2, <2>3, <3>1, <3>2
  <2> QED
    BY <1>4, <2>2, <2>3 DEF SignIn!IssueJWT
<1> QED
  BY <1>3, <1>4

\* Using, ending and revoking sessions never changes whose they are.
LEMMA SignInUses ==
  ASSUME SignInInv, NEW l \in Login, SignIn!Use(l)
  PROVE  SignInInv'
<1> USE SignInConstants DEF SignInInv, SignInTypes, SignIn!accounts, SignIn!Finish, SignIn!Revoked
<1>0. UNCHANGED <<email, suspended, identity, drive, login>>
  BY DEF SignIn!Use, SignIn!AuthenticateSession, SignIn!Logout, SignIn!RevokeAuthSessionByID,
         SignIn!RevokeOtherAuthSessions, SignIn!RequestFails, SignIn!SessionLapses
<1> DEFINE Fine == /\ session' \in [Login -> SessionRecord] /\ wish' \in [Login -> SignIn!Ask \cup {Nil}]
                   /\ shut' \subseteq Login /\ \A k \in Login : SignInSession(k)'
<1> SUFFICES Fine
  BY <1>0, SignInSessionMoves
<1>1. CASE SignIn!AuthenticateSession(l)
  <2>1. session[l].state = "live" /\ UNCHANGED <<session, shut>>
        /\ \E op \in SignIn!Ask : wish' = [wish EXCEPT ![l] = op]
    BY <1>1 DEF SignIn!AuthenticateSession, SignIn!Valid
  <2> QED
    BY <1>0, <2>1 DEF SignInSession
<1>2. CASE SignIn!Logout(l)
  <2>1. session[l].state # "none" /\ shut' = shut \cup {l} /\ wish' = [wish EXCEPT ![l] = Nil]
    BY <1>2 DEF SignIn!Logout, SignInSession, SignIn!Ask
  <2>2. session' \in [Login -> SessionRecord]
    BY <1>2 DEF SignIn!Logout, SessionRecord
  <2> QED
    BY <1>0, <1>2, <2>1, <2>2 DEF SignIn!Logout, SignInSession, SessionRecord
<1>3. CASE SignIn!RevokeAuthSessionByID(l)
  <2>1. PICK k \in Login :
          IF session[k].user = session[l].user /\ session[k].state \in {"live", "lapsed"}
          THEN SignIn!Revoked({k}) /\ shut' = shut \cup {k}
          ELSE UNCHANGED <<session, shut>>
    BY <1>3 DEF SignIn!RevokeAuthSessionByID
  <2>2. wish' = [wish EXCEPT ![l] = Nil]
    BY <1>3 DEF SignIn!RevokeAuthSessionByID
  <2>3. session' \in [Login -> SessionRecord] /\ shut' \subseteq Login
    BY <2>1 DEF SessionRecord
  <2>4. \A j \in Login : SignInSession(j)'
    BY <1>0, <2>1, <2>2 DEF SignInSession, SessionRecord
  <2> QED
    BY <2>2, <2>3, <2>4
<1>4. CASE SignIn!RevokeOtherAuthSessions(l)
  <2>1. /\ session[l].user # Nil /\ wish' = [wish EXCEPT ![l] = Nil]
        /\ \/ UNCHANGED <<session, shut>>
           \/ /\ SignIn!Revoked(SignIn!Others(l))
              /\ shut' = shut \cup {k \in Login \ {l} : session[k].user = session[l].user}
    BY <1>4 DEF SignIn!RevokeOtherAuthSessions, SignInSession, SignIn!Ask
  <2>2. session' \in [Login -> SessionRecord] /\ shut' \subseteq Login
    BY <2>1 DEF SessionRecord
  <2>3. \A j \in Login : SignInSession(j)'
    BY <1>0, <2>1 DEF SignInSession, SessionRecord, SignIn!Others
  <2> QED
    BY <2>1, <2>2, <2>3
<1>5. CASE SignIn!RequestFails(l)
  BY <1>0, <1>5 DEF SignIn!RequestFails, SignInSession
<1>6. CASE SignIn!SessionLapses(l)
  <2>1. /\ session[l].state = "live" /\ session' = [session EXCEPT ![l].state = "lapsed"]
        /\ shut' = shut \cup {l} /\ UNCHANGED wish
    BY <1>6 DEF SignIn!SessionLapses
  <2>2. session' \in [Login -> SessionRecord]
    BY SMTT(60), <2>1 DEF SessionRecord
  <2> QED
    BY <1>0, <2>1, <2>2 DEF SignInSession, SessionRecord
<1> QED
  BY <1>1, <1>2, <1>3, <1>4, <1>5, <1>6 DEF SignIn!Use

\* Every step of sign-in keeps the invariant.
LEMMA SignInStep == SignInInv /\ SignIn!Next => SignInInv'
<1> SUFFICES ASSUME SignInInv, SignIn!Next PROVE SignInInv'
  OBVIOUS
<1>1. ASSUME NEW u \in User, SignIn!Suspend(u) PROVE SignInInv'
  <2>1. UNCHANGED <<email, identity, drive, login, session, wish, shut>> /\ suspended' \subseteq User
    BY <1>1 DEF SignIn!Suspend, SignInInv, SignInTypes
  <2>2. SignInTypes' /\ SignInAccounts'
    BY <2>1 DEF SignInInv, SignInTypes, SignInAccounts
  <2> QED
    BY <2>1, <2>2 DEF SignInInv, SignInPath, SignInSession, SignInApart, SignIn!OneSubject
<1> QED
  BY <1>1, SignInBegins, SignInTakesRow, SignInIdentifies, SignInCommits, SignInOpens, SignInUses
  DEF SignIn!Next, SignIn!SignIn

\* So does a step that leaves sign-in alone.
LEMMA SignInRests == SignInInv /\ UNCHANGED signInVars => SignInInv'
BY DEF signInVars, SignInInv, SignInTypes, SignInAccounts, SignInPath, SignInSession, SignInApart,
       SignIn!OneSubject

\* The invariant is what the run checks, and more.
LEMMA SignInSafe == SignInInv => SessionsReachTheirHome
<1> SUFFICES ASSUME SignInInv PROVE SessionsReachTheirHome
  OBVIOUS
<1> USE DEF SignInInv
<1>1. SignIn!TypeOK
  BY SignInConstants DEF SignIn!TypeOK, SignInTypes, SignInAccounts, LoginRecord, SessionRecord
<1>2. SignIn!OneHome
  BY DEF SignIn!OneHome, SignInAccounts
<1>3. SignIn!SessionsReachTheirHome
  BY DEF SignIn!SessionsReachTheirHome, SignInSession
<1> QED
  BY <1>1, <1>2, <1>3 DEF SessionsReachTheirHome

\* The invariant always holds.
LEMMA SignInInvariant == Spec => []SignInInv
<1>1. Init => SignInInv
  BY SignInInit DEF Init
<1>2. SignInInv /\ [Next]_vars => SignInInv'
  BY SignInStep, SignInRests DEF Next, vars, signInVars
<1> QED
  BY <1>1, <1>2, PTL DEF Spec

\* Every subject has one account, one drive and one address, and a session
\* opens the drive of whoever signed in, for any number of logins, subjects,
\* addresses and users.
THEOREM SignInCorrect == Spec => []SessionsReachTheirHome
BY SignInInvariant, SignInSafe, PTL

\* A session that was shut lets no request through.
LEMMA SignedOutStep ==
  ASSUME SignInInv, SignIn!Next
  PROVE  \A l \in shut : wish[l] = Nil => wish'[l] = Nil
<1> SUFFICES ASSUME NEW l \in shut, wish[l] = Nil, wish'[l] # Nil PROVE FALSE
  OBVIOUS
<1>1. l \in Login /\ session[l].state # "live" /\ wish \in [Login -> SignIn!Ask \cup {Nil}]
  BY DEF SignInInv, SignInTypes, SignInSession
<1>2. ~SignIn!AuthenticateSession(l)
  BY <1>1 DEF SignIn!AuthenticateSession, SignIn!Valid
<1>3. ASSUME NEW k \in Login, SignIn!SignIn(k) \/ SignIn!Use(k) PROVE FALSE
  <2>1. CASE SignIn!SignIn(k)
    BY <2>1 DEF SignIn!SignIn, SignIn!GoogleCallback, SignIn!FindIdentity, SignIn!UpdateAccount,
       SignIn!UpsertUser, SignIn!UpsertIdentity, SignIn!UpsertDrive, SignIn!CommitAccount,
       SignIn!RollBack, SignIn!CreateSession, SignIn!IssueJWT, SignIn!SignInDies
  <2>2. CASE SignIn!Use(k)
    BY <1>1, <1>2, <2>2 DEF SignIn!Use, SignIn!AuthenticateSession, SignIn!Logout,
       SignIn!RevokeAuthSessionByID, SignIn!RevokeOtherAuthSessions, SignIn!RequestFails,
       SignIn!SessionLapses, SignIn!Finish
  <2> QED
    BY <1>3, <2>1, <2>2
<1>4. ASSUME NEW u \in User, SignIn!Suspend(u) PROVE FALSE
  BY <1>4 DEF SignIn!Suspend
<1> QED
  BY <1>3, <1>4 DEF SignIn!Next

\* No request is ever let through on a session that was signed out, revoked or
\* has expired.
THEOREM SignedOut == Spec => SignIn!SignedOutStaysOut
<1>1. SignInInv /\ [Next]_vars =>
        [\A l \in shut : wish[l] = Nil => wish'[l] = Nil]_(SignIn!vars)
  BY SignedOutStep DEF Next, vars, signInVars, SignIn!vars
<1> QED
  BY <1>1, SignInInvariant, PTL DEF Spec, SignIn!SignedOutStaysOut

-----------------------------------------------------------------------------
(* The rate limiter. *)

\* The requests of a caller let through after a time.
After(s, t) == {n \in 1..Len(s) : s[n] > t}

\* The table holds no more windows than it may, each with a count within the
\* limit.
LimiterTypes ==
    /\ now \in Nat /\ IsFiniteSet(DOMAIN entries) /\ DOMAIN entries \subseteq Caller
    /\ entries \in [DOMAIN entries -> [windowStart : 0..now, count : 1..Limit]]
    /\ Cardinality(DOMAIN entries) <= MaxKeys
    /\ admitted \in [Caller -> Seq(Nat)]

\* A caller's window has counted exactly the requests let through in it, and
\* before it there was at most one full window; a caller without a window has
\* let through at most a window's worth lately, none of it at this instant.
LimiterWindow(k) ==
    LET s == admitted[k]  w == entries[k].windowStart IN
    IF k \in DOMAIN entries
    THEN /\ \A n \in 1..Len(s) : s[n] < w + Window
         /\ Cardinality(After(s, w - 1)) = entries[k].count
         /\ Cardinality(After(s, w - Window) \ After(s, w - 1)) <= Limit
    ELSE /\ \A n \in 1..Len(s) : s[n] < now
         /\ Cardinality(After(s, now - Window)) <= Limit

\* The last refusal was for a reason.
LimiterRefusal ==
    /\ refused.at \in Int /\ refused.at <= now
    /\ refused.at = now => refused.key \in Caller
    /\ Limiter!RefusedForAReason

\* The inductive invariant of the rate limiter.
LimiterInv == LimiterTypes /\ (\A k \in Caller : LimiterWindow(k)) /\ LimiterRefusal

\* The counting of the instantiated module is that of this one.
LEMMA LimiterSets ==
    \A S : Limiter!Cardinality(S) = Cardinality(S) /\ (Limiter!IsFiniteSet(S) <=> IsFiniteSet(S))
<1>1. \A S : Limiter!Cardinality(S) = Cardinality(S)
  BY DEF Limiter!Cardinality, Cardinality
<1>2. \A S : Limiter!IsFiniteSet(S) <=> IsFiniteSet(S)
  BY DEF Limiter!IsFiniteSet, IsFiniteSet
<1> QED
  BY <1>1, <1>2

\* What the limiter assumes of its constants.
LEMMA LimiterConstants ==
    /\ Limit \in Nat /\ Limit >= 1 /\ Window \in Nat /\ Window >= 1 /\ MaxKeys \in Nat /\ MaxKeys >= 1
    /\ IsFiniteSet(Caller)
<1>1. {Limit, Window, MaxKeys} \subseteq Nat \ {0} /\ IsFiniteSet(Caller)
  BY RequestsAssumption, LimiterSets DEF Limiter!LimiterAssumption
<1>2. Limit \in Nat \ {0} /\ Window \in Nat \ {0} /\ MaxKeys \in Nat \ {0}
  BY <1>1
<1> QED
  BY <1>1, <1>2

\* The requests after a time are finitely many.
LEMMA AfterFinite ==
  ASSUME NEW s \in Seq(Nat), NEW t \in Int, NEW S \in SUBSET After(s, t)
  PROVE  IsFiniteSet(S) /\ Cardinality(S) \in Nat /\ Cardinality(S) <= Cardinality(After(s, t))
         /\ IsFiniteSet(After(s, t)) /\ Cardinality(After(s, t)) \in Nat
<1>1. IsFiniteSet(1..Len(s))
  BY FS_Interval
<1>2. IsFiniteSet(After(s, t))
  BY <1>1, FS_Subset DEF After
<1>3. IsFiniteSet(S) /\ Cardinality(S) <= Cardinality(After(s, t))
  BY <1>2, FS_Subset
<1> QED
  BY <1>2, <1>3, FS_CardinalityType

\* One more request is one more after every earlier time.
LEMMA AfterAppend ==
  ASSUME NEW s \in Seq(Nat), NEW t \in Int, NEW v \in Nat
  PROVE  /\ v > t => Cardinality(After(Append(s, v), t)) = Cardinality(After(s, t)) + 1
         /\ v <= t => After(Append(s, v), t) = After(s, t)
         /\ After(s, t) \subseteq After(Append(s, v), t)
<1>0. /\ Len(Append(s, v)) = Len(s) + 1 /\ Append(s, v)[Len(s) + 1] = v
      /\ \A n \in 1..Len(s) : Append(s, v)[n] = s[n]
      /\ 1..(Len(s) + 1) = (1..Len(s)) \cup {Len(s) + 1}
  OBVIOUS
<1>1. v <= t => After(Append(s, v), t) = After(s, t)
  BY <1>0 DEF After
<1>2. v > t => After(Append(s, v), t) = After(s, t) \cup {Len(s) + 1}
  BY <1>0 DEF After
<1>3. Len(s) + 1 \notin After(s, t) /\ IsFiniteSet(After(s, t))
  <2>1. Len(s) + 1 \notin After(s, t)
    BY DEF After
  <2> QED
    BY <2>1, AfterFinite
<1>4. Cardinality(After(s, t) \cup {Len(s) + 1}) = Cardinality(After(s, t)) + 1
  BY <1>3, FS_AddElement
<1>5. After(s, t) \subseteq After(Append(s, v), t)
  BY <1>0 DEF After
<1> HIDE DEF After
<1> QED
  BY <1>1, <1>2, <1>4, <1>5

\* With an empty table the invariant holds.
LEMMA LimiterInit == Limiter!Init => LimiterInv
<1> SUFFICES ASSUME Limiter!Init PROVE LimiterInv
  OBVIOUS
<1> USE LimiterConstants DEF Limiter!Init, Limiter!NoCall
<1>1. DOMAIN entries = {}
  OBVIOUS
<1>2. LimiterTypes
  BY <1>1, FS_EmptySet DEF LimiterTypes
<1>3. \A k \in Caller : LimiterWindow(k)
  <2>1. \A k \in Caller : Len(admitted[k]) = 0 /\ After(admitted[k], now - Window) = {}
    BY DEF After
  <2>2. Cardinality({}) = 0
    BY FS_EmptySet
  <2> QED
    BY SMTT(60), <1>1, <2>1, <2>2 DEF LimiterWindow
<1>4. LimiterRefusal
  BY DEF LimiterRefusal, Limiter!RefusedForAReason
<1> QED
  BY <1>2, <1>3, <1>4 DEF LimiterInv

\* The requests the run counts are the ones counted here.
LEMMA LimiterSince ==
  ASSUME NEW k, NEW t
  PROVE  Limiter!Since(k, t) = Cardinality(After(admitted[k], t))
BY LimiterSets DEF Limiter!Since, After

\* Time passing keeps the invariant.
LEMMA LimiterTick == LimiterInv /\ Limiter!Tick => LimiterInv'
<1> SUFFICES ASSUME LimiterInv, Limiter!Tick PROVE LimiterInv'
  OBVIOUS
<1> USE LimiterConstants DEF LimiterInv
<1>1. now \in Nat /\ now' = now + 1 /\ UNCHANGED <<entries, admitted, refused>>
  BY DEF Limiter!Tick, LimiterTypes
<1>2. LimiterTypes'
  BY <1>1 DEF LimiterTypes
<1>3. ASSUME NEW k \in Caller PROVE LimiterWindow(k)'
  <2> DEFINE s == admitted[k]
  <2>1. s \in Seq(Nat)
    BY DEF LimiterTypes
  <2>2. CASE k \in DOMAIN entries
    BY <1>1, <2>2 DEF LimiterWindow
  <2>3. CASE k \notin DOMAIN entries
    <3>1. After(s, now + 1 - Window) \in SUBSET After(s, now - Window)
      BY SMTT(60), <1>1, <2>1 DEF After
    <3>2. /\ Cardinality(After(s, now + 1 - Window)) <= Cardinality(After(s, now - Window))
          /\ Cardinality(After(s, now + 1 - Window)) \in Nat
          /\ Cardinality(After(s, now - Window)) \in Nat
      BY SMTT(60), <1>1, <2>1, <3>1, AfterFinite
    <3>3. Cardinality(After(s, now - Window)) <= Limit /\ \A n \in 1..Len(s) : s[n] < now
      BY <2>3 DEF LimiterWindow
    <3> QED
      BY SMTT(60), <1>1, <2>1, <2>3, <3>2, <3>3 DEF LimiterWindow
  <2> QED
    BY <2>2, <2>3
<1>4. LimiterRefusal'
  BY <1>1 DEF LimiterRefusal, Limiter!RefusedForAReason
<1> QED
  BY <1>2, <1>3, <1>4

\* Dropping a window that is over leaves its caller within a window's worth.
LEMMA LimiterOver ==
  ASSUME LimiterInv, NEW k \in DOMAIN entries, Limiter!Over(k)
  PROVE  /\ \A n \in 1..Len(admitted[k]) : admitted[k][n] < now
         /\ Cardinality(After(admitted[k], now - Window)) <= Limit
<1> USE LimiterConstants DEF LimiterInv
<1> DEFINE s == admitted[k]
           w == entries[k].windowStart
<1>1. k \in Caller /\ s \in Seq(Nat) /\ w \in 0..now /\ entries[k].count \in 1..Limit /\ now \in Nat
  BY DEF LimiterTypes
<1>2. now - w >= Window
  BY DEF Limiter!Over
<1>3. After(s, now - Window) \in SUBSET After(s, w - 1)
  <2> HIDE DEF LimiterInv, s, w
  <2>1. \A n \in 1..Len(s) : s[n] \in Nat
    BY <1>1
  <2> QED
    BY <1>1, <1>2, <2>1 DEF After
<1>4. /\ Cardinality(After(s, now - Window)) <= Cardinality(After(s, w - 1))
      /\ Cardinality(After(s, now - Window)) \in Nat
  <2>1. w - 1 \in Int /\ now - Window \in Int
    BY <1>1
  <2> HIDE DEF LimiterInv, s, w
  <2> QED
    BY <1>1, <1>3, <2>1, AfterFinite
<1>5. Cardinality(After(s, w - 1)) = entries[k].count /\ \A n \in 1..Len(s) : s[n] < w + Window
  BY <1>1 DEF LimiterWindow
<1>6. \A n \in 1..Len(s) : s[n] \in Nat
  BY SMTT(60), <1>1
<1> HIDE DEF LimiterInv, s, w
<1>7. \A n \in 1..Len(s) : s[n] < now
  BY <1>1, <1>2, <1>5, <1>6
<1>8. Cardinality(After(s, now - Window)) <= Limit
  BY <1>1, <1>4, <1>5
<1> QED
  BY <1>7, <1>8 DEF s

\* A window that opens has counted its first request, and the one before it
\* held at most a window's worth.
LEMMA LimiterOpened ==
  ASSUME LimiterInv, NEW k \in Caller, UNCHANGED now, k \in DOMAIN entries',
         entries'[k] = Limiter!Opened, admitted'[k] = Append(admitted[k], now),
         k \in DOMAIN entries => Limiter!Over(k)
  PROVE  LimiterWindow(k)'
<1> USE LimiterConstants DEF LimiterInv
<1> DEFINE s == admitted[k]
           r == Append(s, now)
<1>1. now \in Nat /\ s \in Seq(Nat) /\ r \in Seq(Nat)
  BY DEF LimiterTypes
<1>2. /\ \A n \in 1..Len(s) : s[n] < now
      /\ Cardinality(After(s, now - Window)) <= Limit
  BY LimiterOver DEF LimiterWindow
<1>3. After(s, now - 1) = {}
  BY SMTT(60), <1>1, <1>2 DEF After
<1>4. Cardinality(After(r, now - 1)) = 1
  <2> HIDE DEF LimiterInv
  <2>1. Cardinality(After(s, now - 1)) = 0
    BY <1>3, FS_EmptySet
  <2>2. now - 1 \in Int /\ now > now - 1
    BY <1>1
  <2> QED
    BY <1>1, <2>1, <2>2, AfterAppend
<1>5. After(r, now - Window) \ After(r, now - 1) \in SUBSET After(s, now - Window)
  BY <1>1 DEF After
<1>6. Cardinality(After(r, now - Window) \ After(r, now - 1)) <= Limit
  <2>1. /\ Cardinality(After(r, now - Window) \ After(r, now - 1)) \in Nat
        /\ Cardinality(After(r, now - Window) \ After(r, now - 1)) <= Cardinality(After(s, now - Window))
        /\ Cardinality(After(s, now - Window)) \in Nat
    <3>1. now - Window \in Int
      BY <1>1
    <3> HIDE DEF LimiterInv, s, r
    <3> QED
      BY <1>1, <1>5, <3>1, AfterFinite
  <2> QED
    BY <1>2, <2>1
<1>7. \A n \in 1..Len(r) : r[n] < now + Window
  <2>1. r = Append(s, now) /\ \A n \in 1..Len(s) : s[n] \in Nat
    BY <1>1
  <2> HIDE DEF LimiterInv, s, r
  <2>2. Len(r) = Len(s) + 1 /\ r[Len(s) + 1] = now /\ \A n \in 1..Len(s) : r[n] = s[n]
    BY <1>1, <2>1
  <2> QED
    BY <1>1, <1>2, <2>1, <2>2
<1>8. admitted'[k] = r /\ entries'[k].windowStart = now /\ entries'[k].count = 1 /\ now' = now
  BY DEF Limiter!Opened
<1> HIDE DEF r, LimiterInv
<1> QED
  BY <1>4, <1>6, <1>7, <1>8 DEF LimiterWindow

\* A request counted is one more in its window and in none before it.
LEMMA LimiterCounted ==
  ASSUME LimiterInv, NEW k \in DOMAIN entries, ~Limiter!Over(k), UNCHANGED now,
         entries' = [entries EXCEPT ![k].count = @ + 1], admitted'[k] = Append(admitted[k], now)
  PROVE  LimiterWindow(k)'
<1> USE LimiterConstants DEF LimiterInv
<1> DEFINE s == admitted[k]
           r == Append(s, now)
           w == entries[k].windowStart
<1>1. /\ now \in Nat /\ s \in Seq(Nat) /\ r \in Seq(Nat) /\ w \in 0..now /\ entries[k].count \in Nat
      /\ k \in DOMAIN entries' /\ entries'[k].windowStart = w /\ entries'[k].count = entries[k].count + 1
  BY DEF LimiterTypes
<1>2. now < w + Window
  BY <1>1 DEF Limiter!Over
<1>3. /\ \A n \in 1..Len(s) : s[n] < w + Window
      /\ Cardinality(After(s, w - 1)) = entries[k].count
      /\ Cardinality(After(s, w - Window) \ After(s, w - 1)) <= Limit
  BY DEF LimiterWindow, LimiterTypes
<1>4. Cardinality(After(r, w - 1)) = entries[k].count + 1
  <2>1. w - 1 \in Int /\ now > w - 1
    BY <1>1
  <2>2. r = Append(s, now)
    OBVIOUS
  <2> HIDE DEF LimiterInv, s, r, w
  <2>3. Cardinality(After(r, w - 1)) = Cardinality(After(s, w - 1)) + 1
    BY <1>1, <2>1, <2>2, AfterAppend
  <2> QED
    BY <1>3, <2>3
<1>5. After(r, w - Window) \ After(r, w - 1) = After(s, w - Window) \ After(s, w - 1)
  <2>1. r = Append(s, now) /\ \A n \in 1..Len(s) : s[n] \in Nat
    BY SMTT(60), <1>1
  <2> HIDE DEF LimiterInv, s, r, w
  <2>2. /\ Len(r) = Len(s) + 1 /\ r[Len(s) + 1] = now /\ \A n \in 1..Len(s) : r[n] = s[n]
        /\ 1..Len(r) = (1..Len(s)) \cup {Len(s) + 1}
    BY <1>1, <2>1
  <2> QED
    BY SMTT(60), <1>1, <2>1, <2>2 DEF After
<1>6. \A n \in 1..Len(r) : r[n] < w + Window
  BY SMTT(60), <1>1, <1>2, <1>3
<1>7. admitted'[k] = r
  OBVIOUS
<1> HIDE DEF r, w, s, LimiterInv
<1> QED
  BY <1>1, <1>3, <1>4, <1>5, <1>6, <1>7 DEF LimiterWindow

(* Those who are neither let through nor evicted keep their windows.       *)

\* A request leaves the windows of other callers alone.
LEMMA LimiterOthers ==
  ASSUME LimiterInv, NEW k \in Caller, UNCHANGED now, admitted'[k] = admitted[k],
         k \in DOMAIN entries' => k \in DOMAIN entries /\ entries'[k] = entries[k],
         k \in DOMAIN entries /\ k \notin DOMAIN entries' => Limiter!Over(k)
  PROVE  LimiterWindow(k)'
<1>1. LimiterWindow(k)
  BY DEF LimiterInv
<1>2. CASE k \in DOMAIN entries'
  BY <1>1, <1>2 DEF LimiterWindow
<1>3. CASE k \notin DOMAIN entries /\ k \notin DOMAIN entries'
  BY <1>1, <1>3 DEF LimiterWindow
<1>4. CASE k \in DOMAIN entries /\ k \notin DOMAIN entries'
  BY <1>4, LimiterOver DEF LimiterWindow
<1> QED
  BY <1>2, <1>3, <1>4

\* Letting a request through keeps the last refusal justified.
LEMMA LimiterRefusals ==
  ASSUME LimiterInv, UNCHANGED <<now, refused>>, NEW k \in Caller,
         admitted' = [admitted EXCEPT ![k] = Append(@, now)]
  PROVE  LimiterRefusal'
<1> USE LimiterConstants DEF LimiterInv
<1> DEFINE t == now - Window
           busy == {j \in Caller : Limiter!Since(j, t) > 0}
<1>1. t \in Int /\ now \in Nat
  BY DEF LimiterTypes
<1>2. ASSUME NEW j \in Caller
      PROVE  /\ Limiter!Since(j, t) \in Nat /\ Limiter!Since(j, t)' \in Nat
             /\ Limiter!Since(j, t) <= Limiter!Since(j, t)'
  <2>1. admitted[j] \in Seq(Nat) /\ admitted'[j] \in Seq(Nat)
    BY <1>1 DEF LimiterTypes
  <2>2. After(admitted[j], t) \in SUBSET After(admitted'[j], t)
    BY <1>1, <2>1, AfterAppend DEF LimiterTypes
  <2>3. /\ Limiter!Since(j, t) = Cardinality(After(admitted[j], t))
        /\ Limiter!Since(j, t)' = Cardinality(After(admitted'[j], t))
    BY LimiterSets DEF Limiter!Since, After
  <2> QED
    BY <1>1, <2>1, <2>2, <2>3, AfterFinite
<1>3. busy \subseteq busy' /\ IsFiniteSet(busy')
  <2>1. IsFiniteSet(busy')
    BY FS_Subset
  <2> QED
    BY <1>2, <2>1
<1>4. Cardinality(busy) \in Nat /\ Cardinality(busy') \in Nat /\ Cardinality(busy) <= Cardinality(busy')
  BY <1>3, FS_Subset, FS_CardinalityType
<1>5. refused.at = now => refused.key \in Caller
  BY DEF LimiterRefusal
<1> QED
  BY <1>1, <1>2, <1>4, <1>5, LimiterSets DEF LimiterRefusal, Limiter!RefusedForAReason

\* A request that opens a window, or finds the table full, keeps the invariant.
LEMMA LimiterOpens ==
  ASSUME LimiterInv, NEW k \in Caller, k \in DOMAIN entries => Limiter!Over(k), UNCHANGED now,
         Limiter!OpenWindow(k)
  PROVE  LimiterInv'
<1> USE LimiterConstants
<1> DEFINE full == k \notin DOMAIN entries /\ Cardinality(DOMAIN entries) >= MaxKeys
           kept == IF full THEN Limiter!Evicted ELSE entries
<1>0. /\ now \in Nat /\ IsFiniteSet(DOMAIN entries) /\ DOMAIN entries \subseteq Caller
      /\ entries \in [DOMAIN entries -> [windowStart : 0..now, count : 1..Limit]]
      /\ Cardinality(DOMAIN entries) <= MaxKeys /\ admitted \in [Caller -> Seq(Nat)]
  BY DEF LimiterInv, LimiterTypes
<1>1. /\ DOMAIN kept \subseteq DOMAIN entries /\ IsFiniteSet(DOMAIN kept)
      /\ Cardinality(DOMAIN kept) \in Nat /\ Cardinality(DOMAIN kept) <= Cardinality(DOMAIN entries)
      /\ Cardinality(DOMAIN entries) \in Nat
  <2>1. DOMAIN kept \subseteq DOMAIN entries
    BY DEF Limiter!Evicted
  <2> QED
    BY <1>0, <2>1, FS_Subset, FS_CardinalityType
<1>2. /\ \A j \in DOMAIN kept : kept[j] = entries[j]
      /\ \A j \in DOMAIN entries \ DOMAIN kept : Limiter!Over(j)
      /\ full => \A j \in DOMAIN kept : ~Limiter!Over(j)
  BY DEF Limiter!Evicted
<1>3. CASE full /\ Cardinality(DOMAIN kept) >= MaxKeys
  <2>1. entries' = kept /\ refused' = [key |-> k, at |-> now] /\ UNCHANGED admitted
    BY <1>3, LimiterSets DEF Limiter!OpenWindow, Limiter!Refuse
  <2>2. LimiterTypes'
    <3>1. DOMAIN entries' = DOMAIN kept /\ entries' = [j \in DOMAIN entries' |-> entries'[j]]
      BY <1>3, <2>1 DEF Limiter!Evicted
    <3>2. \A j \in DOMAIN entries' : entries'[j] \in [windowStart : 0..now, count : 1..Limit]
      BY <1>0, <1>1, <1>2, <2>1
    <3> HIDE DEF kept
    <3> QED
      BY <1>0, <1>1, <2>1, <3>1, <3>2 DEF LimiterTypes
  <2>3. \A j \in Caller : LimiterWindow(j)'
    <3> HIDE DEF kept
    <3> QED
      BY <1>0, <1>1, <1>2, <2>1, LimiterOthers
  <2>4. LimiterRefusal'
    <3> DEFINE t == now - Window
               busy == {j \in Caller : Limiter!Since(j, t) > 0}
    <3>1. ASSUME NEW j \in DOMAIN kept PROVE j \in busy
      <4> DEFINE s == admitted[j]
                 w == entries[j].windowStart
      <4>1. /\ j \in Caller /\ j \in DOMAIN entries /\ s \in Seq(Nat) /\ w \in Nat
            /\ entries[j].count \in 1..Limit
        BY <1>0, <1>1
      <4>2. now - w < Window
        BY <1>0, <1>2, <1>3, <4>1 DEF Limiter!Over
      <4>3. Cardinality(After(s, w - 1)) = entries[j].count
        BY <4>1 DEF LimiterInv, LimiterWindow
      <4>4. After(s, w - 1) \in SUBSET After(s, t)
        BY SMTT(60), <1>0, <4>1, <4>2 DEF After
      <4>5. Cardinality(After(s, w - 1)) <= Cardinality(After(s, t)) /\ Cardinality(After(s, t)) \in Nat
        BY <1>0, <4>1, <4>4, AfterFinite
      <4>6. Cardinality(After(s, t)) > 0
        BY <4>1, <4>3, <4>5
      <4> QED
        BY <4>1, <4>6, LimiterSince
    <3>2. IsFiniteSet(busy) /\ Cardinality(busy) \in Nat /\ Cardinality(DOMAIN kept) <= Cardinality(busy)
      <4> HIDE DEF kept
      <4>1. DOMAIN kept \subseteq busy /\ IsFiniteSet(busy)
        BY <3>1, FS_Subset
      <4> QED
        BY <4>1, FS_Subset, FS_CardinalityType
    <3>3. busy' = busy
      BY <2>1, LimiterSets DEF Limiter!Since
    <3>4. Cardinality(busy') >= MaxKeys
      BY <1>1, <1>3, <3>2, <3>3
    <3>5. refused'.at = now /\ refused'.key = k
      BY <2>1
    <3> HIDE DEF kept
    <3> QED
      BY <1>0, <3>4, <3>5, LimiterSets DEF LimiterRefusal, Limiter!RefusedForAReason
  <2> QED
    BY <2>2, <2>3, <2>4 DEF LimiterInv
<1>4. CASE ~(full /\ Cardinality(DOMAIN kept) >= MaxKeys)
  <2>1. /\ entries' = [j \in DOMAIN kept \cup {k} |-> IF j = k THEN Limiter!Opened ELSE kept[j]]
        /\ admitted' = [admitted EXCEPT ![k] = Append(@, now)] /\ UNCHANGED refused
    BY <1>4, LimiterSets DEF Limiter!OpenWindow, Limiter!LetThrough, Limiter!Put
  <2> HIDE DEF kept
  <2>2. LimiterTypes'
    <3>1. Limiter!Opened \in [windowStart : 0..now, count : 1..Limit]
      BY <1>0 DEF Limiter!Opened
    <3>2. \A j \in DOMAIN entries' : entries'[j] \in [windowStart : 0..now, count : 1..Limit]
      BY <1>0, <1>1, <1>2, <2>1, <3>1
    <3>3. admitted' \in [Caller -> Seq(Nat)]
      BY <1>0, <2>1
    <3>4. Cardinality(DOMAIN kept \cup {k}) <= MaxKeys /\ IsFiniteSet(DOMAIN kept \cup {k})
      <4>1. CASE k \in DOMAIN kept
        <5>1. DOMAIN kept \cup {k} = DOMAIN kept
          BY <4>1
        <5> QED
          BY <1>0, <1>1, <5>1
      <4>2. CASE k \notin DOMAIN kept
        <5>1. Cardinality(DOMAIN kept) < MaxKeys
          BY <1>0, <1>1, <1>4, <4>2 DEF kept
        <5>2. /\ IsFiniteSet(DOMAIN kept \cup {k})
              /\ Cardinality(DOMAIN kept \cup {k}) = Cardinality(DOMAIN kept) + 1
          BY <1>1, <4>2, FS_AddElement
        <5> QED
          BY <1>1, <5>1, <5>2
      <4> QED
        BY <4>1, <4>2
    <3> QED
      BY <1>0, <1>1, <2>1, <3>2, <3>3, <3>4 DEF LimiterTypes
  <2>3. ASSUME NEW j \in Caller \ {k} PROVE LimiterWindow(j)'
    BY <1>0, <1>1, <1>2, <2>1, LimiterOthers
  <2>4. LimiterWindow(k)'
    BY <1>0, <2>1, LimiterOpened
  <2>5. LimiterRefusal'
    BY <2>1, LimiterRefusals
  <2> QED
    BY <2>2, <2>3, <2>4, <2>5 DEF LimiterInv
<1> QED
  BY <1>3, <1>4

\* A request that meets an open window keeps the invariant.
LEMMA LimiterCounts ==
  ASSUME LimiterInv, NEW k \in DOMAIN entries, ~Limiter!Over(k), UNCHANGED now, Limiter!CountCall(k)
  PROVE  LimiterInv'
<1> USE LimiterConstants
<1> DEFINE s == admitted[k]
           w == entries[k].windowStart
<1>0. /\ now \in Nat /\ k \in Caller /\ DOMAIN entries \subseteq Caller
      /\ entries \in [DOMAIN entries -> [windowStart : 0..now, count : 1..Limit]]
      /\ admitted \in [Caller -> Seq(Nat)] /\ s \in Seq(Nat) /\ w \in 0..now /\ entries[k].count \in 1..Limit
  BY DEF LimiterInv, LimiterTypes
<1>1. CASE entries[k].count >= Limit
  <2>1. UNCHANGED <<entries, admitted>> /\ refused' = [key |-> k, at |-> now]
    BY <1>1 DEF Limiter!CountCall, Limiter!Refuse
  <2>2. LimiterTypes' /\ \A j \in Caller : LimiterWindow(j)'
    BY <2>1 DEF LimiterInv, LimiterTypes, LimiterWindow
  <2>3. LimiterRefusal'
    <3>1. now - w < Window
      BY <1>0 DEF Limiter!Over
    <3>2. Cardinality(After(s, w - 1)) = entries[k].count
      BY DEF LimiterInv, LimiterWindow, LimiterTypes
    <3>3. After(s, w - 1) \in SUBSET After(s, now - Window)
      BY <1>0, <3>1 DEF After
    <3>4. /\ Cardinality(After(s, w - 1)) <= Cardinality(After(s, now - Window))
          /\ Cardinality(After(s, now - Window)) \in Nat
      <4>1. now - Window \in Int
        BY <1>0
      <4> HIDE DEF s, w
      <4> QED
        BY <1>0, <3>3, <4>1, AfterFinite
    <3>5. Cardinality(After(s, now - Window)) >= Limit
      BY <1>0, <1>1, <3>2, <3>4
    <3>6. Limiter!Since(k, now - Window)' >= Limit
      BY <2>1, <3>5, LimiterSets DEF Limiter!Since, After
    <3>7. refused'.at = now /\ refused'.key = k
      BY <2>1
    <3> QED
      BY <1>0, <3>6, <3>7 DEF LimiterRefusal, Limiter!RefusedForAReason
  <2> QED
    BY <2>2, <2>3 DEF LimiterInv
<1>2. CASE ~(entries[k].count >= Limit)
  <2>1. /\ entries' = [entries EXCEPT ![k].count = @ + 1] /\ UNCHANGED refused
        /\ admitted' = [admitted EXCEPT ![k] = Append(@, now)]
    BY <1>2 DEF Limiter!CountCall, Limiter!LetThrough
  <2>2. DOMAIN entries' = DOMAIN entries /\ \A j \in DOMAIN entries \ {k} : entries'[j] = entries[j]
    BY <2>1
  <2>3. LimiterTypes'
    <3>1. entries[k].count + 1 \in 1..Limit
      BY <1>0, <1>2
    <3>2. entries'[k] \in [windowStart : 0..now, count : 1..Limit]
      BY <1>0, <2>1, <3>1
    <3>3. entries' \in [DOMAIN entries -> [windowStart : 0..now, count : 1..Limit]]
      BY <1>0, <2>1, <2>2, <3>2
    <3> QED
      BY <1>0, <2>1, <2>2, <3>3 DEF LimiterInv, LimiterTypes
  <2>4. ASSUME NEW j \in Caller \ {k} PROVE LimiterWindow(j)'
    BY <1>0, <2>1, <2>2, LimiterOthers
  <2>5. LimiterWindow(k)'
    BY <1>0, <2>1, LimiterCounted
  <2>6. LimiterRefusal'
    BY <1>0, <2>1, LimiterRefusals
  <2> QED
    BY <2>3, <2>4, <2>5, <2>6 DEF LimiterInv
<1> QED
  BY <1>1, <1>2

\* Every step of the limiter keeps the invariant.
LEMMA LimiterStep == LimiterInv /\ Limiter!Next => LimiterInv'
<1> SUFFICES ASSUME LimiterInv, Limiter!Next PROVE LimiterInv'
  OBVIOUS
<1>1. ASSUME NEW k \in Caller, Limiter!Allow(k) PROVE LimiterInv'
  <2>1. CASE k \notin DOMAIN entries \/ Limiter!Over(k)
    BY <1>1, <2>1, LimiterOpens DEF Limiter!Allow
  <2>2. CASE ~(k \notin DOMAIN entries \/ Limiter!Over(k))
    BY <1>1, <2>2, LimiterCounts DEF Limiter!Allow
  <2> QED
    BY <2>1, <2>2
<1> QED
  BY <1>1, LimiterTick DEF Limiter!Next

\* So does a step that leaves the limiter alone.
LEMMA LimiterRests == LimiterInv /\ UNCHANGED limiterVars => LimiterInv'
BY LimiterSets DEF limiterVars, LimiterInv, LimiterTypes, LimiterWindow, LimiterRefusal, Limiter!RefusedForAReason,
       Limiter!Since

\* The invariant is what the run checks, and more.
LEMMA LimiterSafe == LimiterInv => WindowsHold
<1> SUFFICES ASSUME LimiterInv PROVE WindowsHold
  OBVIOUS
<1> USE LimiterConstants
<1>0. /\ now \in Nat /\ DOMAIN entries \subseteq Caller /\ Cardinality(DOMAIN entries) <= MaxKeys
      /\ entries \in [DOMAIN entries -> [windowStart : 0..now, count : 1..Limit]]
      /\ admitted \in [Caller -> Seq(Nat)]
  BY DEF LimiterInv, LimiterTypes
<1>1. Limiter!TypeOK
  BY <1>0, LimiterSets DEF Limiter!TypeOK
<1>2. ASSUME NEW k \in Caller PROVE Limiter!Since(k, now - Window) <= 2 * Limit
  <2> DEFINE s == admitted[k]
             w == entries[k].windowStart
             t == now - Window
  <2>1. s \in Seq(Nat) /\ t \in Int /\ Cardinality(After(s, t)) \in Nat
    BY <1>0, AfterFinite
  <2>2. CASE k \in DOMAIN entries
    <3>1. w \in 0..now /\ entries[k].count \in 1..Limit
      BY <1>0, <2>2
    <3>2. /\ Cardinality(After(s, w - 1)) <= Limit
          /\ Cardinality(After(s, w - Window) \ After(s, w - 1)) <= Limit
      BY <2>2, <3>1 DEF LimiterInv, LimiterWindow
    <3>3. After(s, t) \in SUBSET After(s, w - Window)
      BY SMTT(60), <1>0, <2>1, <3>1 DEF After
    <3> DEFINE A == After(s, w - 1)
               B == After(s, w - Window) \ A
    <3>4. IsFiniteSet(A) /\ IsFiniteSet(B) /\ Cardinality(A) \in Nat /\ Cardinality(B) \in Nat
      BY SMTT(60), <2>1, <3>1, AfterFinite
    <3>5. After(s, t) \subseteq A \cup B
      BY <3>3
    <3> HIDE DEF A, B
    <3>6. IsFiniteSet(A \cup B) /\ Cardinality(A \cup B) <= Cardinality(A) + Cardinality(B)
      <4>1. IsFiniteSet(A \cap B) /\ Cardinality(A \cap B) \in Nat
        BY <3>4, FS_Intersection, FS_CardinalityType
      <4>2. /\ IsFiniteSet(A \cup B)
            /\ Cardinality(A \cup B) = Cardinality(A) + Cardinality(B) - Cardinality(A \cap B)
        BY <3>4, FS_Union
      <4> QED
        BY <3>4, <4>1, <4>2
    <3>7. Cardinality(After(s, t)) <= Cardinality(A \cup B) /\ Cardinality(A \cup B) \in Nat
      BY <3>5, <3>6, FS_Subset, FS_CardinalityType
    <3>8. Cardinality(After(s, t)) <= 2 * Limit
      BY <2>1, <3>2, <3>4, <3>6, <3>7 DEF A, B
    <3> QED
      BY <3>8, LimiterSince
  <2>3. CASE k \notin DOMAIN entries
    <3>1. Cardinality(After(s, t)) <= Limit
      BY <2>3 DEF LimiterInv, LimiterWindow
    <3> QED
      BY <2>1, <3>1, LimiterSince
  <2> QED
    BY <2>2, <2>3
<1> QED
  BY <1>1, <1>2 DEF WindowsHold, Limiter!AtMostTwice, LimiterInv, LimiterRefusal

\* No stretch of a window's length lets through more than two windows' worth,
\* and nobody is refused without a reason, for any limit, window length, number
\* of callers and size of the table, at every time.
THEOREM WindowsCorrect == Spec => []WindowsHold
<1>1. Init => LimiterInv
  BY LimiterInit DEF Init
<1>2. LimiterInv /\ [Next]_vars => LimiterInv'
  BY LimiterStep, LimiterRests DEF Next, vars, limiterVars
<1> QED
  BY <1>1, <1>2, LimiterSafe, PTL DEF Spec

-----------------------------------------------------------------------------
(* The idempotency ledger. *)

\* What a server holds of the request it serves.
LedgerCall ==
    [key : RequestKey \cup {Nil}, op : Op \cup {Nil}, left : SUBSET Thing,
     at : Thing \cup {Nil}, results : SUBSET (Thing \X {"done", "failed"})]

\* A request being served has a key and an operation.
LedgerCalls ==
    /\ call \in [Server -> LedgerCall]
    /\ \A p \in Server : call[p] # Ledger!Idle => call[p].key \in RequestKey /\ call[p].op \in Op

\* A claim is of the slot being worked on, which has no committed row and which
\* no other server has claimed.
LedgerClaims ==
    \A p \in Server : claimed[p] # Nil =>
        /\ call[p].at # Nil /\ claimed[p] = Ledger!SlotOf(p, call[p].at)
        /\ ledger[claimed[p]] = Nil
        /\ \A q \in Server \ {p} : claimed[q] # claimed[p]

\* A slot took effect exactly when it has a row, and whatever was answered "done"
\* is what the row says.
LedgerHistory ==
    /\ effects = [s \in Ledger!Slot |-> IF ledger[s] = Nil THEN 0 ELSE 1]
    /\ \A p \in Server, t \in Thing :
         <<t, "done">> \in call[p].results => ledger[Ledger!SlotOf(p, t)] = call[p].op
    /\ \A a \in answers : /\ a.slot \in Ledger!Slot /\ a.op \in Op
                          /\ a.result = "done" => ledger[a.slot] = a.op

\* The inductive invariant of the idempotency ledger.
LedgerInv == Ledger!TypeOK /\ LedgerCalls /\ LedgerClaims /\ LedgerHistory

\* What the ledger assumes of its constants.
LEMMA LedgerConstants ==
    /\ Nil \notin Thing /\ Nil \notin Op /\ Nil \notin Ledger!Slot /\ MaxCalls \in Nat
    /\ Op \subseteq Ledger!AccessFirst \cup Ledger!LedgerFirst
BY RequestsAssumption DEF Ledger!OpsAssumption, Ledger!Slot

\* With no row and no request the invariant holds.
LEMMA LedgerInit == Ledger!Init => LedgerInv
<1> SUFFICES ASSUME Ledger!Init PROVE LedgerInv
  OBVIOUS
<1> USE LedgerConstants DEF Ledger!Init, Ledger!Idle
<1>1. Ledger!TypeOK
  BY DEF Ledger!TypeOK
<1>2. LedgerCalls
  BY DEF LedgerCalls, LedgerCall
<1>3. LedgerClaims /\ LedgerHistory
  BY DEF LedgerClaims, LedgerHistory, Ledger!SlotOf
<1> QED
  BY <1>1, <1>2, <1>3 DEF LedgerInv

\* The item being worked on is one of those left to do.
LEMMA LedgerServed ==
  ASSUME LedgerInv, NEW p \in Server, call[p].at # Nil
  PROVE  /\ call[p].at \in call[p].left /\ call[p].at \in Thing
         /\ call[p].key \in RequestKey /\ call[p].op \in Op
         /\ Ledger!SlotOf(p, call[p].at) \in Ledger!Slot
BY LedgerConstants DEF LedgerInv, Ledger!TypeOK, LedgerCalls, LedgerCall, Ledger!Idle, Ledger!SlotOf, Ledger!Slot

\* Noting an item's result keeps the requests well formed.
LEMMA LedgerFinish ==
  ASSUME LedgerInv, NEW p \in Server, NEW t \in call[p].left, NEW r \in {"done", "failed"},
         Ledger!Finish(p, t, r)
  PROVE  /\ LedgerCalls'
         /\ \A q \in Server : call'[q].left \subseteq Thing /\ call'[q].at \in call'[q].left \cup {Nil}
<1> USE DEF LedgerInv, LedgerCalls, LedgerCall
<1>1. t \in Thing /\ call[p] \in LedgerCall /\ call[p] # Ledger!Idle
  BY DEF Ledger!Idle
<1>2. call' = [call EXCEPT ![p].left = @ \ {t}, ![p].at = Nil,
                           ![p].results = @ \cup {<<t, r>>}]
  BY DEF Ledger!Finish
<1>3. call[p].results \cup {<<t, r>>} \in SUBSET (Thing \X {"done", "failed"})
  BY <1>1
<1>4. call' \in [Server -> LedgerCall]
  BY ZenonT(60), <1>1, <1>2, <1>3
<1>5. /\ call'[p].key = call[p].key /\ call'[p].op = call[p].op
      /\ call'[p].left = call[p].left \ {t} /\ call'[p].at = Nil
      /\ \A q \in Server \ {p} : call'[q] = call[q]
  BY <1>1, <1>2
<1> QED
  BY <1>1, <1>4, <1>5 DEF Ledger!TypeOK

\* A request arriving keeps the invariant.
LEMMA LedgerReceive ==
  ASSUME LedgerInv, NEW p \in Server, Ledger!Receive(p)
  PROVE  LedgerInv'
<1> USE LedgerConstants DEF LedgerInv
<1>1. PICK k \in RequestKey, o \in Op, things \in SUBSET Thing :
        call' = [call EXCEPT ![p] = [key |-> k, op |-> o, left |-> things,
                                     at |-> Nil, results |-> {}]]
  BY DEF Ledger!Receive
<1>2. /\ call[p] = Ledger!Idle /\ calls < MaxCalls /\ calls' = calls + 1
      /\ UNCHANGED <<ledger, claimed, value, allowed, effects, answers>>
  BY DEF Ledger!Receive
<1>3. claimed[p] = Nil
  BY <1>2 DEF LedgerClaims, Ledger!Idle
<1>4. Ledger!TypeOK' /\ LedgerCalls'
  <2>1. call' \in [Server -> LedgerCall]
    BY <1>1 DEF LedgerCalls, LedgerCall
  <2>2. /\ call'[p].key \in RequestKey /\ call'[p].op \in Op
        /\ call'[p].at = Nil /\ call'[p].left \subseteq Thing
        /\ \A q \in Server \ {p} : call'[q] = call[q]
    BY <1>1 DEF LedgerCalls, LedgerCall
  <2> QED
    BY <1>2, <2>1, <2>2 DEF Ledger!TypeOK, LedgerCalls
<1>5. LedgerClaims'
  BY <1>1, <1>2, <1>3 DEF LedgerClaims, LedgerCalls, LedgerCall, Ledger!TypeOK, Ledger!SlotOf
<1>6. LedgerHistory'
  BY <1>1, <1>2 DEF LedgerHistory, LedgerCalls, LedgerCall, Ledger!SlotOf
<1> QED
  BY <1>4, <1>5, <1>6

\* Claiming a slot, or finding its row, keeps the invariant.
LEMMA LedgerClaim ==
  ASSUME LedgerInv, NEW p \in Server, Ledger!Claim(p)
  PROVE  LedgerInv'
<1> USE LedgerConstants DEF LedgerInv
<1> DEFINE t == call[p].at
           s == Ledger!SlotOf(p, t)
<1>1. t \in Thing /\ t \in call[p].left /\ claimed[p] = Nil /\ s \in Ledger!Slot
  BY LedgerServed DEF Ledger!Claim
<1>2. CASE Ledger!Fresh(s)
  <2>1. /\ UNCHANGED <<ledger, value, allowed, call, calls, effects, answers>>
        /\ claimed' = [claimed EXCEPT ![p] = s] /\ ledger[s] = Nil
        /\ \A q \in Server : claimed[q] # s
    BY <1>2 DEF Ledger!Claim, Ledger!Fresh
  <2>2. Ledger!TypeOK'
    BY <2>1, <1>1 DEF Ledger!TypeOK
  <2>3. LedgerClaims'
    BY <2>1, <1>1, <1>2 DEF LedgerClaims, Ledger!TypeOK, Ledger!SlotOf
  <2> QED
    BY <2>1, <2>2, <2>3 DEF LedgerCalls, LedgerCall, LedgerHistory, Ledger!SlotOf
<1>3. CASE ~Ledger!Fresh(s)
  <2> DEFINE r == IF Ledger!Replayed(s, call[p].op) THEN "done" ELSE "failed"
  <2>1. /\ UNCHANGED <<ledger, claimed, value, allowed, calls, effects, answers>>
        /\ call' = [call EXCEPT ![p].left = @ \ {t}, ![p].at = Nil,
                                ![p].results = @ \cup {<<t, r>>}]
    BY <1>3 DEF Ledger!Claim, Ledger!Finish
  <2>2. Ledger!TypeOK' /\ LedgerCalls'
    BY <2>1, <1>1, LedgerFinish DEF Ledger!TypeOK, Ledger!Finish
  <2>3. LedgerClaims'
    BY <2>1, <1>1 DEF LedgerClaims, LedgerCalls, LedgerCall, Ledger!TypeOK, Ledger!SlotOf
  <2>4. LedgerHistory'
    BY <2>1, <1>1 DEF LedgerHistory, LedgerCalls, LedgerCall, Ledger!SlotOf, Ledger!Replayed
  <2> QED
    BY <2>2, <2>3, <2>4
<1> QED
  BY <1>2, <1>3

\* The commit of the change with its row, and the rollback, keep the invariant.
LEMMA LedgerPerform ==
  ASSUME LedgerInv, NEW p \in Server, Ledger!Perform(p)
  PROVE  LedgerInv'
<1> USE LedgerConstants DEF LedgerInv
<1> DEFINE t == call[p].at
           s == Ledger!SlotOf(p, t)
           r == IF t \in allowed THEN "done" ELSE "failed"
<1>1. t \in Thing /\ t \in call[p].left /\ claimed[p] = s /\ s \in Ledger!Slot /\ ledger[s] = Nil
      /\ call[p].op \in Op
  BY LedgerServed DEF Ledger!Perform, LedgerClaims
<1>2. /\ claimed' = [claimed EXCEPT ![p] = Nil]
      /\ call' = [call EXCEPT ![p].left = @ \ {t}, ![p].at = Nil, ![p].results = @ \cup {<<t, r>>}]
      /\ UNCHANGED <<allowed, calls, answers>>
  BY DEF Ledger!Perform, Ledger!Finish
<1>3. /\ ledger' = IF t \in allowed THEN [ledger EXCEPT ![s] = call[p].op] ELSE ledger
      /\ effects' = IF t \in allowed THEN [effects EXCEPT ![s] = @ + 1] ELSE effects
  BY <1>1 DEF Ledger!Perform, Ledger!FreesKey
<1>4. Ledger!TypeOK' /\ LedgerCalls'
  BY <1>1, <1>2, <1>3, LedgerFinish DEF Ledger!TypeOK, Ledger!Finish
<1>5. LedgerClaims'
  BY <1>1, <1>2, <1>3 DEF LedgerClaims, LedgerCalls, LedgerCall, Ledger!TypeOK, Ledger!SlotOf
<1>6. LedgerHistory'
  BY <1>1, <1>2, <1>3 DEF LedgerHistory, LedgerCalls, LedgerCall, Ledger!TypeOK, Ledger!SlotOf
<1> QED
  BY <1>4, <1>5, <1>6

\* Every step of the ledger keeps the invariant.
LEMMA LedgerStep == LedgerInv /\ Ledger!Next => LedgerInv'
<1> SUFFICES ASSUME LedgerInv, Ledger!Next PROVE LedgerInv'
  OBVIOUS
<1> USE LedgerConstants
<1>1. ASSUME NEW p \in Server, Ledger!Answer(p) PROVE LedgerInv'
  <2> DEFINE new == {[slot |-> Ledger!SlotOf(p, r[1]), op |-> call[p].op, result |-> r[2]] :
                     r \in call[p].results}
  <2>1. /\ call' = [call EXCEPT ![p] = Ledger!Idle] /\ answers' = answers \cup new
        /\ call[p] # Ledger!Idle /\ call[p].at = Nil
        /\ UNCHANGED <<ledger, claimed, value, allowed, calls, effects>>
    BY <1>1 DEF Ledger!Answer
  <2>2. Ledger!TypeOK' /\ LedgerCalls' /\ LedgerClaims'
    BY <2>1 DEF LedgerInv, Ledger!TypeOK, LedgerCalls, LedgerCall, LedgerClaims, Ledger!Idle, Ledger!SlotOf
  <2>3. ASSUME NEW a \in new
        PROVE  a.slot \in Ledger!Slot /\ a.op \in Op /\ (a.result = "done" => ledger[a.slot] = a.op)
    <3>1. PICK r \in call[p].results :
            a = [slot |-> Ledger!SlotOf(p, r[1]), op |-> call[p].op, result |-> r[2]]
      OBVIOUS
    <3>2. r[1] \in Thing /\ r = <<r[1], r[2]>> /\ call[p].key \in RequestKey /\ call[p].op \in Op
      BY <2>1 DEF LedgerInv, LedgerCalls, LedgerCall
    <3> QED
      BY <3>1, <3>2 DEF LedgerInv, LedgerHistory, Ledger!SlotOf, Ledger!Slot
  <2>4. LedgerHistory'
    BY <2>1, <2>3 DEF LedgerInv, LedgerHistory, LedgerCalls, LedgerCall, Ledger!Idle, Ledger!SlotOf
  <2> QED
    BY <2>2, <2>4 DEF LedgerInv
<1>2. ASSUME NEW p \in Server, Ledger!Lost(p) PROVE LedgerInv'
  <2>1. Ledger!TypeOK' /\ LedgerCalls'
    BY <1>2 DEF LedgerInv, Ledger!Lost, Ledger!TypeOK, LedgerCalls, LedgerCall, Ledger!Idle
  <2>2. LedgerClaims'
    BY <1>2 DEF LedgerInv, Ledger!Lost, LedgerCalls, LedgerCall, LedgerClaims, Ledger!TypeOK, Ledger!SlotOf
  <2>3. LedgerHistory'
    <3>1. call'[p].results = {} /\ \A q \in Server \ {p} : call'[q] = call[q]
      BY <1>2 DEF LedgerInv, Ledger!Lost, LedgerCalls, LedgerCall, Ledger!Idle
    <3> QED
      BY <1>2, <3>1 DEF LedgerInv, Ledger!Lost, LedgerHistory, Ledger!SlotOf
  <2> QED
    BY <2>1, <2>2, <2>3 DEF LedgerInv
<1>3. ASSUME NEW p \in Server, NEW t \in Thing, Ledger!CheckAccess(p, t) PROVE LedgerInv'
  <2>1. /\ t \in call[p].left /\ call[p].at = Nil /\ claimed[p] = Nil
        /\ UNCHANGED <<ledger, claimed, value, allowed, calls, effects, answers>>
        /\ \/ call' = [call EXCEPT ![p].at = t]
           \/ call' = [call EXCEPT ![p].left = @ \ {t}, ![p].at = Nil,
                                   ![p].results = @ \cup {<<t, "failed">>}]
    BY <1>3 DEF LedgerInv, LedgerClaims, Ledger!CheckAccess, Ledger!Finish
  <2>2. Ledger!TypeOK' /\ LedgerCalls'
    <3>1. CASE call' = [call EXCEPT ![p].at = t]
      <4>1. call' \in [Server -> LedgerCall]
        BY <2>1, <3>1 DEF LedgerInv, LedgerCalls, LedgerCall, Ledger!TypeOK
      <4>2. /\ call'[p].key = call[p].key /\ call'[p].op = call[p].op /\ call'[p].left = call[p].left
            /\ call'[p].at = t /\ call[p] # Ledger!Idle
            /\ \A q \in Server \ {p} : call'[q] = call[q]
        BY <2>1, <3>1 DEF LedgerInv, LedgerCalls, LedgerCall, Ledger!Idle
      <4> QED
        BY <2>1, <4>1, <4>2 DEF LedgerInv, Ledger!TypeOK, LedgerCalls, LedgerCall
    <3>2. CASE call' = [call EXCEPT ![p].left = @ \ {t}, ![p].at = Nil,
                                    ![p].results = @ \cup {<<t, "failed">>}]
      BY <2>1, <3>2, LedgerFinish DEF LedgerInv, Ledger!TypeOK, Ledger!Finish
    <3> QED
      BY <2>1, <3>1, <3>2
  <2>3. LedgerClaims'
    BY <2>1 DEF LedgerInv, Ledger!TypeOK, LedgerCalls, LedgerCall, LedgerClaims, Ledger!SlotOf
  <2>4. LedgerHistory'
    BY <2>1 DEF LedgerInv, LedgerHistory, LedgerCalls, LedgerCall, Ledger!SlotOf
  <2> QED
    BY <2>2, <2>3, <2>4 DEF LedgerInv
<1>4. ASSUME NEW t \in Thing, Ledger!AccessChanges(t) PROVE LedgerInv'
  BY <1>4 DEF LedgerInv, Ledger!AccessChanges, Ledger!TypeOK, LedgerCalls, LedgerCall, LedgerClaims,
              LedgerHistory, Ledger!SlotOf
<1> QED
  BY <1>1, <1>2, <1>3, <1>4, LedgerReceive, LedgerClaim, LedgerPerform DEF Ledger!Next

\* So does a step that leaves the ledger alone.
LEMMA LedgerRests == LedgerInv /\ UNCHANGED ledgerVars => LedgerInv'
BY DEF ledgerVars, LedgerInv, Ledger!TypeOK, LedgerCalls, LedgerCall, LedgerClaims, LedgerHistory, Ledger!SlotOf

\* The invariant is what the run checks, and more.
LEMMA LedgerSafe == LedgerInv => OneEffectPerKey
BY LedgerConstants DEF LedgerInv, LedgerHistory, OneEffectPerKey, Ledger!OneEffectPerKey,
   Ledger!DoneWasDone, Ledger!KeysBuyEffects

\* The invariant always holds.
LEMMA LedgerInvariant == Spec => []LedgerInv
<1>1. Init => LedgerInv
  BY LedgerInit DEF Init
<1>2. LedgerInv /\ [Next]_vars => LedgerInv'
  BY LedgerStep, LedgerRests DEF Next, vars, ledgerVars
<1> QED
  BY <1>1, <1>2, PTL DEF Spec

\* A key takes effect at most once, what was answered as done was done, and no
\* key is spent in vain, however many servers, retries, losses and changes of
\* access there are.
THEOREM LedgerCorrect == Spec => []OneEffectPerKey
BY LedgerInvariant, LedgerSafe, PTL

\* Where the ledger is asked first, no result "failed" is for the very request
\* that the row stands for.
LEMMA LedgerRetries == LedgerInv /\ [Ledger!Next]_ledgerVars =>
    (\A p \in Server, t \in Thing :
        /\ <<t, "failed">> \in call'[p].results \ call[p].results
        /\ call[p].op \in Ledger!LedgerFirst
        => ledger[Ledger!SlotOf(p, t)] # call[p].op)
<1> SUFFICES ASSUME LedgerInv, [Ledger!Next]_ledgerVars, NEW p \in Server, NEW t \in Thing,
                    <<t, "failed">> \in call'[p].results, <<t, "failed">> \notin call[p].results,
                    call[p].op \in Ledger!LedgerFirst
             PROVE  ledger[Ledger!SlotOf(p, t)] # call[p].op
  OBVIOUS
<1> USE LedgerConstants DEF LedgerInv, LedgerCalls, LedgerCall
<1>1. ASSUME NEW q \in Server, Ledger!Receive(q) PROVE FALSE
  BY <1>1 DEF Ledger!Receive
<1>2. ASSUME NEW q \in Server, Ledger!Answer(q) \/ Ledger!Lost(q) PROVE FALSE
  BY <1>2 DEF Ledger!Answer, Ledger!Lost, Ledger!Idle
<1>3. ASSUME NEW q \in Server, NEW u \in Thing, NEW r \in {"done", "failed"}, Ledger!Finish(q, u, r)
      PROVE  q = p /\ u = t /\ r = "failed"
  BY <1>3 DEF Ledger!Finish
<1>4. ASSUME NEW q \in Server, NEW u \in Thing, Ledger!CheckAccess(q, u) PROVE FALSE
  <2>1. CASE Ledger!Finish(q, u, "failed") /\ call[q].op \in Ledger!AccessFirst
    BY <1>3, <2>1 DEF Ledger!AccessFirst, Ledger!LedgerFirst
  <2>2. CASE call' = [call EXCEPT ![q].at = u]
    BY <2>2
  <2> QED
    BY <1>4, <2>1, <2>2 DEF Ledger!CheckAccess
<1>5. ASSUME NEW q \in Server, Ledger!Claim(q) PROVE ledger[Ledger!SlotOf(p, t)] # call[p].op
  <2> DEFINE s == Ledger!SlotOf(q, call[q].at)
  <2>1. call[q].at \in Thing
    BY <1>5, LedgerServed DEF Ledger!Claim
  <2>2. CASE Ledger!Fresh(s)
    BY <1>5, <2>2 DEF Ledger!Claim
  <2>3. CASE ~Ledger!Fresh(s)
    <3>1. Ledger!Finish(q, call[q].at, IF Ledger!Replayed(s, call[q].op) THEN "done" ELSE "failed")
      BY <1>5, <2>3 DEF Ledger!Claim
    <3>2. q = p /\ call[q].at = t /\ ~Ledger!Replayed(s, call[q].op)
      BY <2>1, <3>1, <1>3
    <3> QED
      BY <3>2 DEF Ledger!Replayed
  <2> QED
    BY <2>2, <2>3
<1>6. ASSUME NEW q \in Server, Ledger!Perform(q) PROVE ledger[Ledger!SlotOf(p, t)] # call[p].op
  <2>1. call[q].at \in Thing /\ claimed[q] # Nil /\ call[q].at # Nil /\ call[q].op \in Op
    BY <1>6, LedgerServed DEF Ledger!Perform
  <2>2. claimed[q] = Ledger!SlotOf(q, call[q].at) /\ ledger[claimed[q]] = Nil
    BY <2>1 DEF LedgerClaims
  <2>3. Ledger!Finish(q, call[q].at, "done") \/ Ledger!Finish(q, call[q].at, "failed")
    BY <1>6 DEF Ledger!Perform
  <2>4. q = p /\ call[q].at = t
    BY <2>1, <2>3, <1>3
  <2> QED
    BY <2>1, <2>2, <2>4
<1>7. ASSUME NEW u \in Thing, Ledger!AccessChanges(u) PROVE FALSE
  BY <1>7 DEF Ledger!AccessChanges
<1>8. CASE UNCHANGED ledgerVars
  BY <1>8 DEF ledgerVars
<1> QED
  BY <1>1, <1>2, <1>4, <1>5, <1>6, <1>7, <1>8 DEF Ledger!Next

\* A request that took effect is never refused to a retry, whatever access has
\* changed since.
THEOREM RetriesCorrect == Spec => Ledger!RetriesAgree
<1>1. LedgerInv /\ [Next]_vars =>
        [\A p \in Server, t \in Thing :
          /\ <<t, "failed">> \in call'[p].results \ call[p].results
          /\ call[p].op \in Ledger!LedgerFirst
          => ledger[Ledger!SlotOf(p, t)] # call[p].op]_(Ledger!vars)
  BY LedgerRetries DEF Next, vars, ledgerVars, Ledger!vars
<1> QED
  BY <1>1, LedgerInvariant, PTL DEF Spec, Ledger!RetriesAgree

\* What the run checks of both: no session outlives its end, and retries agree.
THEOREM AnswersCorrect == Spec => AnswersStand
BY SignedOut, RetriesCorrect DEF AnswersStand

-----------------------------------------------------------------------------
(* Paged listings. *)

\* What the listings assume of their constants.
LEMMA PageConstants ==
  /\ Row \subseteq Nat \ {0} /\ PageSize \subseteq Nat \ {0} /\ NameRange \subseteq Nat
  /\ View \subseteq {"folder", "search", "trash", "recent", "activity", "offset"}
  /\ Time \subseteq Nat /\ IsFiniteSet(Row) /\ IsFiniteSet(Time)
  /\ Nil \notin Nat /\ Nil \notin Int \X Int /\ Nil \notin Int \X Int \X Int
<1>1. \A S : Pages!IsFiniteSet(S) <=> IsFiniteSet(S)
  BY DEF Pages!IsFiniteSet, IsFiniteSet
<1> QED
  BY <1>1, RequestsAssumption DEF Pages!ItemAssumption

\* The counting of the instantiated module is that of this one.
LEMMA PageCounts == ASSUME NEW S PROVE Pages!Cardinality(S) = Cardinality(S)
BY DEF Pages!Cardinality, Cardinality

\* What is numbered without repetition from a up to b counts b - a, or less where
\* numbers are left out.
LEMMA Numbered ==
  ASSUME NEW a \in Nat, NEW b \in Nat, a <= b, NEW S, NEW f \in [S -> a..(b - 1)],
         \A x, y \in S : f[x] = f[y] => x = y
  PROVE  /\ IsFiniteSet(S) /\ Cardinality(S) \in Nat /\ Cardinality(S) <= b - a
         /\ Cardinality(S) = b - a <=> \A n \in a..(b - 1) : \E x \in S : f[x] = n
<1>1. PICK T : T = a..(b - 1)
  OBVIOUS
<1>2. IsFiniteSet(T) /\ Cardinality(T) = b - a
  <2>1. a \in Int /\ b - 1 \in Int
    OBVIOUS
  <2>2. /\ IsFiniteSet(a..(b - 1))
        /\ Cardinality(a..(b - 1)) = IF a > b - 1 THEN 0 ELSE (b - 1) - a + 1
    BY <2>1, FS_Interval
  <2>3. (IF a > b - 1 THEN 0 ELSE (b - 1) - a + 1) = b - a
    OBVIOUS
  <2> QED
    BY <1>1, <2>2, <2>3
<1>3. f \in [S -> T]
  BY <1>1
<1>4. /\ IsFiniteSet(S) /\ Cardinality(S) <= Cardinality(T)
      /\ Cardinality(S) = Cardinality(T) <=> \A t \in T : \E x \in S : f[x] = t
  <2>1. f \in Injection(S, T)
    BY <1>3 DEF Injection, IsInjective
  <2>2. f \in Surjection(S, T) <=> \A t \in T : \E x \in S : f[x] = t
    BY <1>3 DEF Surjection
  <2> QED
    BY <1>2, <2>1, <2>2, FS_Injection
<1>5. Cardinality(S) \in Nat
  BY <1>4, FS_CardinalityType
<1> QED
  BY <1>1, <1>2, <1>4, <1>5

\* The columns a listing is ordered by.
Columns == IF view \in {"folder", "search", "offset"} THEN Int \X Int \X Int ELSE Int \X Int

\* The columns of the rows, the walk and its history.
PageTypes ==
    /\ view \in View /\ limit \in PageSize /\ finished \in BOOLEAN
    /\ name \in [Row -> NameRange] /\ at \in [Row -> Nat]
    /\ present \subseteq Row /\ disturbed \subseteq Row /\ shown \in [Row -> 0..2]
    /\ changes \in Nat
    /\ after # Nil => after \in (IF view = "offset" THEN Nat ELSE Columns)

\* Rows are ordered by numbers, two or three, the last of them the row's own.
LEMMA KeyColumns ==
  ASSUME PageTypes, NEW i \in Row
  PROVE  /\ view \in {"folder", "search", "offset"} =>
              \E g, n \in Int : Pages!Key(i) = <<g, n, i>>
         /\ view \in {"trash", "recent", "activity"} => Pages!Key(i) = <<-at[i], -i>>
         /\ Pages!Key(i) \in Columns
<1>1. i \in Nat /\ name[i] \in Nat /\ at[i] \in Nat
  BY PageConstants DEF PageTypes
<1>2. Pages!Group(i) \in Int /\ -Pages!Score(name[i]) \in Int
  BY <1>1 DEF Pages!Group, Pages!Score
<1>3. CASE view \in {"folder", "offset"}
  <2>1. Pages!Key(i) = <<Pages!Group(i), name[i], i>>
    BY <1>3 DEF Pages!Key, Pages!FolderKey
  <2> QED
    BY <1>1, <1>2, <1>3, <2>1 DEF Columns
<1>4. CASE view = "search"
  <2>1. Pages!Key(i) = <<-Pages!Score(name[i]), name[i], i>>
    BY <1>4 DEF Pages!Key, Pages!SearchKey
  <2> QED
    BY <1>1, <1>2, <1>4, <2>1 DEF Columns
<1>5. CASE view \in {"trash", "recent", "activity"}
  <2>1. Pages!Key(i) = <<-at[i], -i>>
    BY <1>5 DEF Pages!Key, Pages!TrashKey, Pages!UserViewKey, Pages!ActivityKey
  <2> QED
    BY <1>1, <1>5, <2>1 DEF Columns
<1> QED
  BY <1>3, <1>4, <1>5, PageConstants DEF PageTypes

\* Column by column is a strict order of its tuples.
LEMMA LessThree ==
  ASSUME NEW s \in Int \X Int \X Int, NEW t \in Int \X Int \X Int
  PROVE  Pages!Less(s, t) <=> \/ s[1] < t[1]
                              \/ s[1] = t[1] /\ s[2] < t[2]
                              \/ s[1] = t[1] /\ s[2] = t[2] /\ s[3] < t[3]
<1>1. DOMAIN s = 1..3
  OBVIOUS
<1>2. Pages!Less(s, t) <=> \E n \in 1..3 : s[n] < t[n] /\ \A m \in 1..(n - 1) : s[m] = t[m]
  BY <1>1 DEF Pages!Less
<1>3. \A n \in 1..3 : n = 1 \/ n = 2 \/ n = 3
  OBVIOUS
<1>4. 1 \in 1..3 /\ 2 \in 1..3 /\ 3 \in 1..3 /\ 1..0 = {} /\ 1..1 = {1} /\ 1..2 = {1, 2}
  OBVIOUS
<1> QED
  BY <1>2, <1>3, <1>4

LEMMA LessTwo ==
  ASSUME NEW s \in Int \X Int, NEW t \in Int \X Int
  PROVE  Pages!Less(s, t) <=> s[1] < t[1] \/ (s[1] = t[1] /\ s[2] < t[2])
<1>1. DOMAIN s = 1..2
  OBVIOUS
<1>2. Pages!Less(s, t) <=> \E n \in 1..2 : s[n] < t[n] /\ \A m \in 1..(n - 1) : s[m] = t[m]
  BY <1>1 DEF Pages!Less
<1>3. \A n \in 1..2 : n = 1 \/ n = 2
  OBVIOUS
<1>4. 1 \in 1..2 /\ 2 \in 1..2 /\ 1..0 = {} /\ 1..1 = {1}
  OBVIOUS
<1> QED
  BY <1>2, <1>3, <1>4

LEMMA LessOrder ==
  ASSUME NEW s \in Columns, NEW t \in Columns, NEW u \in Columns
  PROVE  /\ ~(Pages!Less(s, t) /\ Pages!Less(t, s)) /\ ~Pages!Less(s, s)
         /\ Pages!Less(s, t) /\ Pages!Less(t, u) => Pages!Less(s, u)
         /\ ~Pages!Less(t, s) /\ Pages!Less(t, u) => Pages!Less(s, u)
         /\ Pages!Less(s, t) /\ ~Pages!Less(u, t) => Pages!Less(s, u)
<1>1. CASE view \in {"folder", "search", "offset"}
  <2>1. s \in Int \X Int \X Int /\ t \in Int \X Int \X Int /\ u \in Int \X Int \X Int
    BY <1>1 DEF Columns
  <2>2. s[1] \in Int /\ s[2] \in Int /\ s[3] \in Int /\ t[1] \in Int /\ t[2] \in Int /\ t[3] \in Int
        /\ u[1] \in Int /\ u[2] \in Int /\ u[3] \in Int
    BY <2>1
  <2> QED
    BY <2>1, <2>2, LessThree
<1>2. CASE view \notin {"folder", "search", "offset"}
  <2>1. s \in Int \X Int /\ t \in Int \X Int /\ u \in Int \X Int
    BY <1>2 DEF Columns
  <2>2. s[1] \in Int /\ s[2] \in Int /\ t[1] \in Int /\ t[2] \in Int /\ u[1] \in Int /\ u[2] \in Int
    BY <2>1
  <2> QED
    BY <2>1, <2>2, LessTwo
<1> QED
  BY <1>1, <1>2

\* Of two rows one comes first.
LEMMA RowsOrdered ==
  ASSUME PageTypes, NEW i \in Row, NEW j \in Row, i # j
  PROVE  Pages!Less(Pages!Key(i), Pages!Key(j)) \/ Pages!Less(Pages!Key(j), Pages!Key(i))
<1>1. i \in Nat /\ j \in Nat /\ at[i] \in Nat /\ at[j] \in Nat
  BY PageConstants DEF PageTypes
<1>2. CASE view \in {"folder", "search", "offset"}
  <2>1. PICK g, n \in Int : Pages!Key(i) = <<g, n, i>>
    BY <1>2, KeyColumns
  <2>2. PICK h, m \in Int : Pages!Key(j) = <<h, m, j>>
    BY <1>2, KeyColumns
  <2>3. <<g, n, i>> \in Int \X Int \X Int /\ <<h, m, j>> \in Int \X Int \X Int
    BY <1>1
  <2> QED
    BY <1>1, <2>1, <2>2, <2>3, LessThree
<1>3. CASE view \in {"trash", "recent", "activity"}
  <2>1. Pages!Key(i) = <<-at[i], -i>> /\ Pages!Key(j) = <<-at[j], -j>>
    BY <1>3, KeyColumns
  <2>2. <<-at[i], -i>> \in Int \X Int /\ <<-at[j], -j>> \in Int \X Int
    BY <1>1
  <2> QED
    BY <1>1, <2>1, <2>2, LessTwo
<1> QED
  BY <1>2, <1>3, PageConstants DEF PageTypes

\* The places of the rows of a listing: each row has one, the earlier row the smaller,
\* and together they number the listing without a gap.
LEMMA Ranks ==
  ASSUME PageTypes, NEW R, R \subseteq Row
  PROVE  /\ IsFiniteSet(R) /\ Cardinality(R) \in Nat
         /\ \A i \in R : Pages!Rank(i, R) \in 0..(Cardinality(R) - 1)
         /\ \A i, j \in R :
               Pages!Less(Pages!Key(i), Pages!Key(j)) <=> (Pages!Rank(i, R) < Pages!Rank(j, R))
         /\ \A i, j \in R : Pages!Rank(i, R) = Pages!Rank(j, R) => i = j
         /\ \A n \in 0..(Cardinality(R) - 1) : \E i \in R : Pages!Rank(i, R) = n
<1> DEFINE Below(i) == {j \in R : j # i /\ Pages!Less(Pages!Key(j), Pages!Key(i))}
<1> DEFINE rank(i) == Pages!Rank(i, R)
<1>1. IsFiniteSet(R) /\ Cardinality(R) \in Nat
  BY PageConstants, FS_Subset, FS_CardinalityType
<1>2. \A i : rank(i) = Cardinality(Below(i))
  BY PageCounts DEF Pages!Rank
<1>3. ASSUME NEW i \in R
      PROVE  rank(i) \in 0..(Cardinality(R) - 1) /\ IsFiniteSet(Below(i)) /\ i \notin Below(i)
  <2>1. IsFiniteSet(R \ {i}) /\ Cardinality(R \ {i}) = Cardinality(R) - 1
    BY <1>1, FS_RemoveElement
  <2>2. Below(i) \subseteq R \ {i}
    OBVIOUS
  <2>3. IsFiniteSet(Below(i)) /\ Cardinality(Below(i)) <= Cardinality(R \ {i})
    BY <2>1, <2>2, FS_Subset
  <2>4. Cardinality(Below(i)) \in Nat
    BY <2>3, FS_CardinalityType
  <2>5. rank(i) \in 0..(Cardinality(R) - 1)
    <3> HIDE DEF Below, rank
    <3> QED
      BY <1>1, <1>2, <2>1, <2>3, <2>4
  <2> QED
    BY <2>3, <2>5
<1>4. ASSUME NEW i \in R, NEW j \in R, Pages!Less(Pages!Key(i), Pages!Key(j))
      PROVE  rank(i) < rank(j)
  <2>1. Pages!Key(i) \in Columns /\ Pages!Key(j) \in Columns
    BY KeyColumns
  <2>2. i # j
    BY <1>4, <2>1, LessOrder
  <2>3. i \in Below(j)
    BY <1>4, <2>2
  <2>4. \A k \in Below(i) : k \in Below(j)
    <3> SUFFICES ASSUME NEW k \in R, k # i, Pages!Less(Pages!Key(k), Pages!Key(i))
                 PROVE  k # j /\ Pages!Less(Pages!Key(k), Pages!Key(j))
      OBVIOUS
    <3>1. Pages!Key(k) \in Columns
      BY KeyColumns
    <3> QED
      BY <1>4, <2>1, <3>1, LessOrder
  <2>5. IsFiniteSet(Below(j)) /\ IsFiniteSet(Below(i)) /\ i \notin Below(i)
    BY <1>3
  <2>6. /\ IsFiniteSet(Below(j) \ {i}) /\ Cardinality(Below(j) \ {i}) = Cardinality(Below(j)) - 1
    <3> HIDE DEF Below
    <3> QED
      BY <2>3, <2>5, FS_RemoveElement
  <2>7. Below(i) \subseteq Below(j) \ {i}
    BY <2>4, <2>5
  <2> HIDE DEF Below, rank
  <2>8. Cardinality(Below(i)) <= Cardinality(Below(j) \ {i})
    BY <2>6, <2>7, FS_Subset
  <2>9. rank(i) \in Nat /\ rank(j) \in Nat
    BY <1>3, <1>1
  <2> QED
    BY <1>2, <2>6, <2>8, <2>9
<1>5. ASSUME NEW i \in R, NEW j \in R, rank(i) < rank(j)
      PROVE  Pages!Less(Pages!Key(i), Pages!Key(j))
  <2>1. rank(i) \in Int /\ rank(j) \in Int
    <3>1. rank(i) \in 0..(Cardinality(R) - 1) /\ rank(j) \in 0..(Cardinality(R) - 1)
      BY <1>3
    <3> HIDE DEF rank, Below
    <3> QED
      BY <1>1, <3>1
  <2>2. i # j
    BY <1>5, <2>1
  <2>3. ~Pages!Less(Pages!Key(j), Pages!Key(i))
    <3> HIDE DEF rank
    <3> QED
      BY <1>4, <1>5, <2>1
  <2> QED
    BY <2>2, <2>3, RowsOrdered
<1>6. ASSUME NEW i \in R, NEW j \in R, rank(i) = rank(j)
      PROVE  i = j
  <2>1. rank(i) \in Int /\ rank(j) \in Int
    <3>1. rank(i) \in 0..(Cardinality(R) - 1) /\ rank(j) \in 0..(Cardinality(R) - 1)
      BY <1>3
    <3> HIDE DEF rank, Below
    <3> QED
      BY <1>1, <3>1
  <2>2. ~Pages!Less(Pages!Key(j), Pages!Key(i)) /\ ~Pages!Less(Pages!Key(i), Pages!Key(j))
    <3> HIDE DEF rank
    <3> QED
      BY <1>4, <1>6, <2>1
  <2> QED
    BY <2>2, RowsOrdered
<1>7. \A n \in 0..(Cardinality(R) - 1) : \E i \in R : rank(i) = n
  <2> DEFINE places == [i \in R |-> rank(i)]
  <2>1. PICK total : total = Cardinality(R)
    OBVIOUS
  <2>2. places \in [R -> 0..(total - 1)]
    BY <1>3, <2>1
  <2>3. \A i, j \in R : places[i] = places[j] => i = j
    BY <1>6
  <2>4. \A i \in R : places[i] = rank(i)
    OBVIOUS
  <2> HIDE DEF places, rank
  <2>5. Cardinality(R) = total - 0 <=> \A n \in 0..(total - 1) : \E i \in R : places[i] = n
    BY <1>1, <2>1, <2>2, <2>3, Numbered
  <2> QED
    BY <1>1, <2>1, <2>4, <2>5
<1> HIDE DEF rank
<1>8. \A i, j \in R : Pages!Less(Pages!Key(i), Pages!Key(j)) <=> (rank(i) < rank(j))
  BY <1>4, <1>5
<1> QED
  BY <1>1, <1>3, <1>6, <1>7, <1>8 DEF rank

\* A page by cursor: the first rows of those after the cursor, at most as many as asked
\* for; where rows are left over, the page ends at the row the next cursor names.
LEMMA CursorCut ==
  ASSUME PageTypes
  PROVE  /\ Pages!CursorPage \subseteq Pages!Candidates /\ Pages!Candidates \subseteq present
         /\ Cardinality(Pages!CursorPage) <= limit
         /\ Cardinality(Pages!Candidates) \in Nat
         /\ Cardinality(Pages!Candidates) <= limit => Pages!CursorPage = Pages!Candidates
         /\ Cardinality(Pages!Candidates) > limit =>
              /\ Pages!LastRow \in Pages!Candidates
              /\ \A i \in Pages!Candidates :
                    i \in Pages!CursorPage <=> ~Pages!Less(Pages!Key(Pages!LastRow), Pages!Key(i))
<1>1. PICK C : C = Pages!Candidates
  OBVIOUS
<1>2. PICK page : page = Pages!CursorPage
  OBVIOUS
<1> DEFINE rank(i) == Pages!Rank(i, C)
<1>3. C \subseteq present /\ C \subseteq Row /\ limit \in Nat \ {0}
  BY <1>1, PageConstants DEF PageTypes, Pages!Candidates
<1>4. \A i : i \in page <=> (i \in C /\ rank(i) < limit)
  BY <1>1, <1>2 DEF Pages!CursorPage
<1>5. /\ Cardinality(C) \in Nat
      /\ \A i \in C : rank(i) \in 0..(Cardinality(C) - 1)
      /\ \A i, j \in C :
            Pages!Less(Pages!Key(i), Pages!Key(j)) <=> (rank(i) < rank(j))
      /\ \A i, j \in C : rank(i) = rank(j) => i = j
      /\ \A n \in 0..(Cardinality(C) - 1) : \E i \in C : rank(i) = n
  BY <1>3, Ranks
<1>6. Pages!LastRow = CHOOSE i \in C : rank(i) = limit - 1
  BY <1>1 DEF Pages!LastRow
<1> HIDE DEF rank
<1>7. Cardinality(page) <= limit
  <2> DEFINE places == [i \in page |-> rank(i)]
  <2>1. places \in [page -> 0..(limit - 1)] /\ \A i, j \in page : places[i] = places[j] => i = j
    BY <1>3, <1>4, <1>5
  <2> HIDE DEF places
  <2>2. Cardinality(page) <= limit - 0
    BY <1>3, <2>1, Numbered
  <2> QED
    BY <1>3, <2>2
<1>8. Cardinality(C) <= limit => page = C
  <2>1. Cardinality(C) <= limit => \A i \in C : rank(i) < limit
    BY <1>3, <1>5
  <2> QED
    BY <1>4, <2>1
<1>9. ASSUME Cardinality(C) > limit
      PROVE  /\ Pages!LastRow \in C
             /\ \A i \in C :
                   i \in page <=> ~Pages!Less(Pages!Key(Pages!LastRow), Pages!Key(i))
  <2>1. limit - 1 \in 0..(Cardinality(C) - 1)
    BY <1>3, <1>5, <1>9
  <2>2. \E i \in C : rank(i) = limit - 1
    BY <1>5, <2>1
  <2>3. Pages!LastRow \in C /\ rank(Pages!LastRow) = limit - 1
    BY <1>6, <2>2
  <2>4. ASSUME NEW i \in C
        PROVE  i \in page <=> ~Pages!Less(Pages!Key(Pages!LastRow), Pages!Key(i))
    <3>1. Pages!Less(Pages!Key(Pages!LastRow), Pages!Key(i)) <=> (rank(Pages!LastRow) < rank(i))
      BY <1>5, <2>3
    <3>2. rank(i) \in Int
      BY <1>5
    <3> QED
      BY <1>3, <1>4, <2>3, <3>1, <3>2
  <2> QED
    BY <2>3, <2>4
<1>10. page \subseteq C
  BY <1>4
<1> QED
  BY <1>1, <1>2, <1>3, <1>5, <1>7, <1>8, <1>9, <1>10, PageCounts

\* The legacy listing numbers its rows once: folders first, then files.
RowTotal == Cardinality(present)
Place(i) ==
  IF i \in Pages!Folders THEN Pages!Rank(i, Pages!Folders)
  ELSE Cardinality(Pages!Folders) + Pages!Rank(i, Pages!Files)
PageStart == Pages!Minimum(Pages!Offset, RowTotal)
PageEnd == Pages!Minimum(PageStart + limit, RowTotal)

LEMMA Places ==
  ASSUME PageTypes
  PROVE  /\ RowTotal \in Nat
         /\ \A i \in present : Place(i) \in 0..(RowTotal - 1)
         /\ \A i, j \in present : Place(i) = Place(j) => i = j
         /\ \A n \in 0..(RowTotal - 1) : \E i \in present : Place(i) = n
         /\ Pages!Folders \subseteq present /\ Pages!Files = present \ Pages!Folders
         /\ Cardinality(Pages!Folders) \in Nat /\ Cardinality(Pages!Files) \in Nat
         /\ RowTotal = Cardinality(Pages!Folders) + Cardinality(Pages!Files)
         /\ \A i \in Pages!Folders : Pages!Rank(i, Pages!Folders) \in 0..(Cardinality(Pages!Folders) - 1)
         /\ \A i \in Pages!Files : Pages!Rank(i, Pages!Files) \in 0..(Cardinality(Pages!Files) - 1)
<1>1. PICK folders : folders = Pages!Folders
  OBVIOUS
<1>2. PICK files : files = Pages!Files
  OBVIOUS
<1> DEFINE first(i) == Pages!Rank(i, folders)
<1> DEFINE second(i) == Pages!Rank(i, files)
<1> DEFINE place(i) == Place(i)
<1>3. /\ folders \subseteq present /\ files = present \ folders
      /\ present \subseteq Row /\ folders \subseteq Row /\ files \subseteq Row
  BY <1>1, <1>2 DEF PageTypes, Pages!Folders, Pages!Files
<1>4. /\ IsFiniteSet(folders) /\ Cardinality(folders) \in Nat
      /\ \A i \in folders : first(i) \in 0..(Cardinality(folders) - 1)
      /\ \A i, j \in folders : first(i) = first(j) => i = j
      /\ \A n \in 0..(Cardinality(folders) - 1) : \E i \in folders : first(i) = n
  BY <1>3, Ranks
<1>5. /\ IsFiniteSet(files) /\ Cardinality(files) \in Nat
      /\ \A i \in files : second(i) \in 0..(Cardinality(files) - 1)
      /\ \A i, j \in files : second(i) = second(j) => i = j
      /\ \A n \in 0..(Cardinality(files) - 1) : \E i \in files : second(i) = n
  BY <1>3, Ranks
<1>6. \A i : place(i) = IF i \in folders THEN first(i) ELSE Cardinality(folders) + second(i)
  BY <1>1, <1>2 DEF Place
<1> HIDE DEF first, second, place
<1>7. RowTotal = Cardinality(folders) + Cardinality(files)
  <2>1. folders \cap files = {} /\ folders \cup files = present
    BY <1>3
  <2>2. Cardinality(folders \cup files)
          = Cardinality(folders) + Cardinality(files) - Cardinality(folders \cap files)
    BY <1>4, <1>5, FS_Union
  <2>3. Cardinality(folders \cap files) = 0
    BY <2>1, FS_EmptySet
  <2>4. Cardinality(folders) + Cardinality(files) - 0 = Cardinality(folders) + Cardinality(files)
    BY <1>4, <1>5
  <2>5. Cardinality(folders \cup files) = RowTotal
    BY <2>1 DEF RowTotal
  <2> QED
    BY <2>2, <2>3, <2>4, <2>5
<1>8. PICK f \in Nat, l \in Nat : f = Cardinality(folders) /\ l = Cardinality(files)
  BY <1>4, <1>5
<1>9. RowTotal = f + l
  BY <1>7, <1>8
<1>10. \A i \in folders : first(i) \in 0..(f - 1) /\ place(i) = first(i)
  BY <1>4, <1>6, <1>8
<1>11. \A i \in files : second(i) \in 0..(l - 1) /\ place(i) = f + second(i)
  BY <1>3, <1>5, <1>6, <1>8
<1>12. \A i \in present : i \in folders \/ i \in files
  BY <1>3
<1>13. \A i \in present : place(i) \in 0..(RowTotal - 1)
  BY <1>8, <1>9, <1>10, <1>11, <1>12
<1>14. ASSUME NEW i \in present, NEW j \in present, place(i) = place(j)
       PROVE  i = j
  <2>1. CASE i \in folders /\ j \in folders
    BY <1>4, <1>10, <1>14, <2>1
  <2>2. CASE i \in files /\ j \in files
    <3>1. second(i) = second(j)
      BY <1>8, <1>11, <1>14, <2>2
    <3> QED
      BY <1>5, <2>2, <3>1
  <2>3. CASE i \in folders /\ j \in files
    BY <1>8, <1>10, <1>11, <1>14, <2>3
  <2>4. CASE i \in files /\ j \in folders
    BY <1>8, <1>10, <1>11, <1>14, <2>4
  <2> QED
    BY <1>12, <2>1, <2>2, <2>3, <2>4
<1>15. ASSUME NEW n \in 0..(RowTotal - 1)
       PROVE  \E i \in present : place(i) = n
  <2>1. CASE n < f
    <3>1. PICK i \in folders : first(i) = n
      <4>1. n \in 0..(f - 1)
        BY <1>8, <1>9, <1>15, <2>1
      <4> QED
        BY <1>4, <1>8, <4>1
    <3> QED
      BY <1>3, <1>10, <3>1
  <2>2. CASE n >= f
    <3>1. n - f \in 0..(l - 1)
      BY <1>8, <1>9, <1>15, <2>2
    <3>2. PICK i \in files : second(i) = n - f
      BY <1>5, <1>8, <3>1
    <3>3. i \in present /\ place(i) = f + (n - f)
      BY <1>3, <1>11, <3>2
    <3> QED
      BY <1>8, <1>9, <3>3
  <2> QED
    BY <1>8, <1>9, <2>1, <2>2
<1>16. RowTotal \in Nat
  BY <1>8, <1>9
<1> QED
  BY <1>1, <1>2, <1>3, <1>4, <1>5, <1>7, <1>13, <1>14, <1>15, <1>16 DEF first, second, place

\* A page by offset holds the rows of the places between its start and its end.
LEMMA OffsetCut ==
  ASSUME PageTypes, view = "offset"
  PROVE  /\ Pages!Offset \in Nat /\ PageStart \in Nat /\ PageEnd \in Nat
         /\ PageStart <= PageEnd /\ PageEnd <= RowTotal /\ PageEnd - PageStart <= limit
         /\ Pages!Offset <= RowTotal => PageStart = Pages!Offset
         /\ PageEnd = RowTotal \/ PageEnd = PageStart + limit
         /\ \A i : i \in Pages!OffsetPage
                     <=> (i \in present /\ PageStart <= Place(i) /\ Place(i) < PageEnd)
         /\ Cardinality(Pages!OffsetPage) = PageEnd - PageStart
<1> DEFINE fo == Cardinality(Pages!Folders)
           fi == Cardinality(Pages!Files)
           first(i) == Pages!Rank(i, Pages!Folders)
           second(i) == Pages!Rank(i, Pages!Files)
           place(i) == Place(i)
           page == Pages!OffsetPage
           folderStart == Pages!Minimum(PageStart, fo)
           folderEnd == Pages!Minimum(PageEnd, fo)
           fileStart == Pages!Maximum(0, PageStart - fo)
           fileEnd == Pages!Minimum(Pages!Maximum(0, PageEnd - fo), fi)
<1>1. limit \in Nat \ {0} /\ Pages!Offset \in Nat
  BY PageConstants DEF PageTypes, Pages!Offset
<1>2. /\ RowTotal \in Nat
      /\ \A i \in present : place(i) \in 0..(RowTotal - 1)
      /\ \A i, j \in present : place(i) = place(j) => i = j
      /\ \A n \in 0..(RowTotal - 1) : \E i \in present : place(i) = n
      /\ Pages!Folders \subseteq present /\ Pages!Files = present \ Pages!Folders
      /\ fo \in Nat /\ fi \in Nat /\ RowTotal = fo + fi
      /\ \A i \in Pages!Folders : first(i) \in 0..(fo - 1)
      /\ \A i \in Pages!Files : second(i) \in 0..(fi - 1)
  BY Places
<1>3. /\ PageStart \in Nat /\ PageEnd \in Nat
      /\ PageStart <= PageEnd /\ PageEnd <= RowTotal /\ PageEnd - PageStart <= limit
      /\ Pages!Offset <= RowTotal => PageStart = Pages!Offset
      /\ PageEnd = RowTotal \/ PageEnd = PageStart + limit
  BY <1>1, <1>2 DEF PageStart, PageEnd, Pages!Minimum
<1>4. page = {i \in Pages!Folders : first(i) \in folderStart..(folderEnd - 1)}
               \cup {i \in Pages!Files : second(i) \in fileStart..(fileEnd - 1)}
  BY PageCounts DEF Pages!OffsetPage, Pages!PaginateMetadata, PageStart, PageEnd, RowTotal
<1>5. /\ \A i \in Pages!Folders : place(i) = first(i)
      /\ \A i \in Pages!Files : place(i) = fo + second(i)
  BY <1>2 DEF Place
<1> HIDE DEF fo, fi, first, second, place, page
<1>6. ASSUME NEW i \in Pages!Folders
      PROVE  first(i) \in folderStart..(folderEnd - 1)
               <=> (PageStart <= place(i) /\ place(i) < PageEnd)
  <2>1. first(i) \in 0..(fo - 1) /\ place(i) = first(i)
    BY <1>2, <1>5
  <2> QED
    BY <1>2, <1>3, <2>1 DEF Pages!Minimum
<1>7. ASSUME NEW i \in Pages!Files
      PROVE  second(i) \in fileStart..(fileEnd - 1)
               <=> (PageStart <= place(i) /\ place(i) < PageEnd)
  <2>1. second(i) \in 0..(fi - 1) /\ place(i) = fo + second(i)
    BY <1>2, <1>5
  <2> QED
    BY <1>2, <1>3, <2>1 DEF Pages!Minimum, Pages!Maximum
<1> HIDE DEF folderStart, folderEnd, fileStart, fileEnd
<1>8. \A i : i \in page <=> (i \in present /\ PageStart <= place(i) /\ place(i) < PageEnd)
  <2>1. \A i : i \in page <=> \/ i \in Pages!Folders /\ first(i) \in folderStart..(folderEnd - 1)
                              \/ i \in Pages!Files /\ second(i) \in fileStart..(fileEnd - 1)
    BY <1>4
  <2>2. \A i : i \in present <=> (i \in Pages!Folders \/ i \in Pages!Files)
    BY <1>2
  <2> QED
    BY <1>6, <1>7, <2>1, <2>2
<1>9. Cardinality(page) = PageEnd - PageStart
  <2> DEFINE places == [i \in page |-> place(i)]
  <2>1. \A i \in page : places[i] = place(i)
    OBVIOUS
  <2>2. \A i \in page : place(i) \in PageStart..(PageEnd - 1)
    BY <1>2, <1>3, <1>8
  <2>3. places \in [page -> PageStart..(PageEnd - 1)]
    BY <2>2
  <2>4. \A i, j \in page : places[i] = places[j] => i = j
    BY <1>2, <1>8, <2>1
  <2>5. \A n \in PageStart..(PageEnd - 1) : \E i \in page : places[i] = n
    <3> SUFFICES ASSUME NEW n \in PageStart..(PageEnd - 1)
                 PROVE  \E i \in page : places[i] = n
      OBVIOUS
    <3>1. n \in 0..(RowTotal - 1) /\ PageStart <= n /\ n < PageEnd
      BY <1>2, <1>3
    <3>2. PICK i \in present : place(i) = n
      BY <1>2, <3>1
    <3> QED
      BY <1>8, <2>1, <3>1, <3>2
  <2> HIDE DEF places
  <2> QED
    BY <1>3, <2>3, <2>4, <2>5, Numbered
<1> QED
  BY <1>1, <1>3, <1>8, <1>9 DEF place, page

-----------------------------------------------------------------------------
(* The walk. Of the rows that stayed as they were, a walk by cursor has    *)
(* shown those up to its cursor and no others; a walk by offset, while     *)
(* nothing moved, those of the places before its offset.                   *)

\* What a walk by cursor has shown of a row that stayed as it was.
Behind(i) ==
  /\ shown[i] <= 1
  /\ ~finished /\ after = Nil => shown[i] = 0
  /\ after # Nil /\ Pages!Less(after, Pages!Key(i)) => shown[i] = 0
  /\ after # Nil /\ i \in present /\ ~Pages!Less(after, Pages!Key(i)) => shown[i] = 1
  /\ finished /\ i \in present => shown[i] = 1

\* What a walk by offset has shown of a row while nothing moved.
Before(i) ==
  /\ i \notin present => shown[i] = 0
  /\ ~finished /\ i \in present => shown[i] = IF Place(i) < Pages!Offset THEN 1 ELSE 0
  /\ finished /\ i \in present => shown[i] = 1

PageInv ==
  /\ PageTypes
  /\ finished => after = Nil
  /\ view # "offset" => \A i \in Row \ disturbed : Behind(i)
  /\ view = "offset" /\ changes = 0 =>
       /\ \A i \in Row : Before(i)
       /\ Pages!Offset <= RowTotal

\* What PageInv promises is what the listings are checked for.
LEMMA PageSafe == PageInv => ShownExactlyOnce
<1> SUFFICES ASSUME PageInv
             PROVE  Pages!TypeOK /\ Pages!NothingRepeated /\ Pages!NothingMissed
  BY DEF ShownExactlyOnce
<1>1. PageTypes
  BY DEF PageInv
<1>2. Cardinality(Pages!Page) <= limit
  <2>1. CASE view = "offset"
    BY <1>1, <2>1, OffsetCut DEF Pages!Page
  <2>2. CASE view # "offset"
    BY <1>1, <2>2, CursorCut DEF Pages!Page
  <2> QED
    BY <2>1, <2>2
<1>3. Pages!TypeOK
  BY <1>1, <1>2, PageCounts DEF Pages!TypeOK, PageTypes
<1>4. \A i \in Pages!Steady : shown[i] <= 1 /\ (finished /\ i \in present => shown[i] >= 1)
  <2>1. CASE view = "offset"
    <3> SUFFICES ASSUME NEW i \in Row, changes = 0, view = "offset"
                 PROVE  shown[i] <= 1 /\ (finished /\ i \in present => shown[i] >= 1)
      BY <1>1, <2>1 DEF Pages!Steady, PageTypes
    <3> QED
      BY DEF PageInv, Before
  <2>2. CASE view # "offset"
    <3> SUFFICES ASSUME NEW i \in Row \ disturbed
                 PROVE  shown[i] <= 1 /\ (finished /\ i \in present => shown[i] >= 1)
      BY <2>2 DEF Pages!Steady
    <3> QED
      BY <2>2 DEF PageInv, Behind
  <2> QED
    BY <2>1, <2>2
<1> QED
  BY <1>3, <1>4 DEF Pages!NothingRepeated, Pages!NothingMissed

LEMMA PageInit == Pages!Init => PageInv
<1> SUFFICES ASSUME Pages!Init PROVE PageInv
  OBVIOUS
<1>1. /\ view \in View /\ limit \in PageSize /\ after = Nil /\ finished = FALSE
      /\ name \in [Row -> NameRange] /\ at \in [Row -> Time] /\ present \in SUBSET Row
      /\ shown = [i \in Row |-> 0] /\ disturbed = {} /\ changes = 0
  BY DEF Pages!Init
<1>2. PageTypes
  <2>1. Time \subseteq Nat
    BY PageConstants
  <2>2. at \in [Row -> Nat]
    BY <1>1, <2>1
  <2>3. shown \in [Row -> 0..2]
    BY <1>1
  <2> QED
    BY <1>1, <2>2, <2>3 DEF PageTypes
<1>3. \A i \in Row : Behind(i)
  BY <1>1 DEF Behind
<1>4. Pages!Offset = 0
  BY <1>1 DEF Pages!Offset
<1>5. RowTotal \in Nat /\ \A i \in present : Place(i) \in 0..(RowTotal - 1)
  BY <1>2, Places
<1>6. \A i \in Row : Before(i)
  BY <1>1, <1>4, <1>5 DEF Before
<1> QED
  BY <1>1, <1>2, <1>3, <1>4, <1>5, <1>6 DEF PageInv

\* A page by cursor shows what comes next, and the cursor moves past it.
LEMMA CursorShows == PageInv /\ view # "offset" /\ Pages!Show(Pages!CursorNext) => PageInv'
<1> SUFFICES ASSUME PageInv, view # "offset", Pages!Show(Pages!CursorNext)
             PROVE  PageInv'
  OBVIOUS
<1>1. PICK C : C = Pages!Candidates
  OBVIOUS
<1>2. PICK page : page = Pages!CursorPage
  OBVIOUS
<1>3. PICK last : last = Pages!LastRow
  OBVIOUS
<1> DEFINE key(i) == Pages!Key(i)
<1>4. PageTypes /\ (finished => after = Nil) /\ \A i \in Row \ disturbed : Behind(i)
  BY DEF PageInv
<1>5. /\ \A i : i \in C <=> i \in present /\ (after # Nil => Pages!Less(after, key(i)))
      /\ page \subseteq C /\ C \subseteq present
      /\ Cardinality(C) \in Nat /\ limit \in Nat
      /\ Cardinality(C) <= limit => page = C
      /\ Cardinality(C) > limit =>
           /\ last \in C
           /\ \A i \in C : i \in page <=> ~Pages!Less(key(last), key(i))
  BY <1>1, <1>2, <1>3, <1>4, CursorCut, PageConstants DEF PageTypes, Pages!Candidates
<1>6. /\ ~finished
      /\ shown' = [i \in Row |-> IF i \in page /\ shown[i] < 2 THEN shown[i] + 1 ELSE shown[i]]
      /\ after' = IF Cardinality(C) > limit THEN key(last) ELSE Nil
      /\ finished' = (after' = Nil)
      /\ UNCHANGED <<view, limit, name, at, present, disturbed, changes>>
  BY <1>1, <1>2, <1>3, PageCounts DEF Pages!Show, Pages!CursorNext, Pages!Page
<1>7. \A i \in Row : key(i) \in Columns
  BY <1>4, KeyColumns
<1>8. Columns' = Columns /\ \A i : Pages!Key(i)' = key(i)
  BY <1>6 DEF Columns, Pages!Key, Pages!FolderKey, Pages!SearchKey, Pages!TrashKey,
              Pages!UserViewKey, Pages!ActivityKey
<1> HIDE DEF key
<1>9. /\ view \in View /\ limit \in PageSize /\ name \in [Row -> NameRange]
      /\ at \in [Row -> Nat] /\ present \subseteq Row /\ disturbed \subseteq Row
      /\ shown \in [Row -> 0..2] /\ changes \in Nat
      /\ after # Nil => after \in Columns
  BY <1>4 DEF PageTypes
<1>10. after' # Nil => Cardinality(C) > limit /\ last \in C /\ after' = key(last) /\ after' \in Columns
  BY <1>5, <1>6, <1>7, <1>9
<1>11. PageTypes'
  <2>1. shown' \in [Row -> 0..2]
    BY <1>6, <1>9
  <2>2. finished' \in BOOLEAN
    BY <1>6
  <2> QED
    BY <1>6, <1>8, <1>9, <1>10, <2>1, <2>2 DEF PageTypes
<1>12. ASSUME NEW i \in Row \ disturbed
       PROVE  Behind(i)'
  <2>1. /\ shown[i] \in 0..2 /\ shown[i] <= 1
        /\ after = Nil => shown[i] = 0
        /\ after # Nil /\ Pages!Less(after, key(i)) => shown[i] = 0
        /\ after # Nil /\ i \in present /\ ~Pages!Less(after, key(i)) => shown[i] = 1
    BY <1>4, <1>6, <1>9 DEF Behind, key
  <2>2. shown'[i] = IF i \in page THEN shown[i] + 1 ELSE shown[i]
    BY <1>6, <2>1
  <2>3. i \in C => shown[i] = 0
    BY <1>5, <2>1
  <2>4. i \in present /\ i \notin C => shown[i] = 1
    BY <1>5, <2>1
  <2>5. shown'[i] <= 1
    BY <1>5, <2>1, <2>2, <2>3
  <2>6. finished' /\ i \in present => shown'[i] = 1
    <3> SUFFICES ASSUME after' = Nil, i \in present PROVE shown'[i] = 1
      BY <1>6
    <3>1. Cardinality(C) <= limit
      <4>1. Cardinality(C) > limit => key(last) # Nil
        BY ZenonT(60), <1>5, <1>7, <1>9, PageConstants DEF Columns
      <4> QED
        BY <1>5, <1>6, <4>1
    <3> QED
      BY <1>5, <2>2, <2>3, <2>4, <3>1
  <2>7. ASSUME after' # Nil, Pages!Less(after', key(i))
        PROVE  shown'[i] = 0
    <3>1. i \notin page
      BY <1>5, <1>10, <2>7
    <3>2. after # Nil => Pages!Less(after, key(i))
      <4> SUFFICES ASSUME after # Nil PROVE Pages!Less(after, key(i))
        OBVIOUS
      <4>1. Pages!Less(after, key(last)) /\ last \in Row
        BY <1>5, <1>9, <1>10, <2>7
      <4>2. after \in Columns /\ key(last) \in Columns /\ key(i) \in Columns
        BY <1>7, <1>9, <4>1
      <4>3. Pages!Less(key(last), key(i))
        BY <1>10, <2>7
      <4> QED
        BY <4>1, <4>2, <4>3, LessOrder
    <3> QED
      BY <2>1, <2>2, <3>1, <3>2
  <2>8. ASSUME after' # Nil, i \in present, ~Pages!Less(after', key(i))
        PROVE  shown'[i] = 1
    <3>1. ~Pages!Less(key(last), key(i)) /\ Cardinality(C) > limit
      BY <1>10, <2>8
    <3>2. i \in C => i \in page
      BY <1>5, <3>1
    <3>3. CASE i \in C
      BY <2>2, <2>3, <3>2, <3>3
    <3>4. CASE i \notin C
      BY <1>5, <2>2, <2>4, <2>8, <3>4
    <3> QED
      BY <3>3, <3>4
  <2> QED
    BY <1>6, <1>8, <2>5, <2>6, <2>7, <2>8 DEF Behind
<1> QED
  BY <1>6, <1>11, <1>12 DEF PageInv

\* A page by offset shows the next places, and the offset moves past them.
LEMMA OffsetShows == PageInv /\ view = "offset" /\ Pages!Show(Pages!OffsetNext) => PageInv'
<1> SUFFICES ASSUME PageInv, view = "offset", Pages!Show(Pages!OffsetNext)
             PROVE  PageInv'
  OBVIOUS
<1>1. PICK page : page = Pages!OffsetPage
  OBVIOUS
<1>2. PICK start : start = PageStart
  OBVIOUS
<1>3. PICK end : end = PageEnd
  OBVIOUS
<1>4. PICK total : total = RowTotal
  OBVIOUS
<1>5. PICK offset : offset = Pages!Offset
  OBVIOUS
<1> DEFINE place(i) == Place(i)
<1>6. PageTypes
  BY DEF PageInv
<1>7. /\ offset \in Nat /\ start \in Nat /\ end \in Nat
      /\ start <= end /\ end <= total /\ end - start <= limit
      /\ offset <= total => start = offset
      /\ end = total \/ end = start + limit
      /\ \A i : i \in page <=> (i \in present /\ start <= place(i) /\ place(i) < end)
      /\ Cardinality(page) = end - start
  BY <1>1, <1>2, <1>3, <1>4, <1>5, <1>6, OffsetCut
<1>8. total \in Nat /\ limit \in Nat \ {0} /\ \A i \in present : place(i) \in 0..(total - 1)
  BY <1>4, <1>6, Places, PageConstants DEF PageTypes
<1>9. /\ ~finished
      /\ shown' = [i \in Row |-> IF i \in page /\ shown[i] < 2 THEN shown[i] + 1 ELSE shown[i]]
      /\ after' = IF offset + (end - start) < total THEN offset + (end - start) ELSE Nil
      /\ finished' = (after' = Nil)
      /\ UNCHANGED <<view, limit, name, at, present, disturbed, changes>>
  <2>1. Pages!Cardinality(page) = end - start /\ Pages!Cardinality(present) = total
    BY <1>4, <1>7, PageCounts DEF RowTotal
  <2>2. after' = Pages!OffsetNext
    BY DEF Pages!Show
  <2>3. after' = IF offset + (end - start) < total THEN offset + (end - start) ELSE Nil
    BY <1>1, <1>5, <2>1, <2>2 DEF Pages!OffsetNext
  <2> QED
    BY <1>1, <2>2, <2>3 DEF Pages!Show, Pages!Page
<1>10. RowTotal' = total /\ \A i : Place(i)' = place(i)
  BY <1>4, <1>9 DEF RowTotal, Place, Pages!Folders, Pages!Files, Pages!Rank, Pages!Key,
        Pages!FolderKey, Pages!SearchKey, Pages!TrashKey, Pages!UserViewKey, Pages!ActivityKey
<1> HIDE DEF place
<1>11. /\ view \in View /\ limit \in PageSize /\ name \in [Row -> NameRange]
       /\ at \in [Row -> Nat] /\ present \subseteq Row /\ disturbed \subseteq Row
       /\ shown \in [Row -> 0..2] /\ changes \in Nat
  BY <1>6 DEF PageTypes
<1>12. offset + (end - start) \in Nat /\ Nil \notin Nat
  BY <1>7, PageConstants
<1>13. PageTypes'
  <2>1. shown' \in [Row -> 0..2]
    BY <1>9, <1>11
  <2>2. finished' \in BOOLEAN
    BY <1>9
  <2>3. after' # Nil => after' \in Nat
    BY <1>9, <1>12
  <2> QED
    BY <1>9, <1>11, <2>1, <2>2, <2>3 DEF PageTypes
<1>14. ASSUME changes = 0
       PROVE  (\A i \in Row : Before(i)') /\ Pages!Offset' <= RowTotal'
  <2>1. offset <= total /\ \A i \in Row : Before(i)
    BY <1>4, <1>5, <1>14 DEF PageInv
  <2>2. start = offset /\ after' = IF end < total THEN end ELSE Nil
    <3>1. offset + (end - offset) = end
      BY <1>7
    <3> QED
      BY <1>7, <1>9, <2>1, <3>1
  <2>3. after' # Nil => Pages!Offset' = end
    BY <2>2 DEF Pages!Offset
  <2>4. Pages!Offset' <= RowTotal'
    <3>1. after' = Nil => Pages!Offset' = 0
      BY DEF Pages!Offset
    <3> QED
      BY <1>7, <1>8, <1>10, <2>2, <2>3, <3>1
  <2>5. ASSUME NEW i \in Row
        PROVE  Before(i)'
    <3>1. /\ i \notin present => shown[i] = 0
          /\ i \in present => shown[i] = IF place(i) < offset THEN 1 ELSE 0
      BY <1>5, <1>9, <2>1 DEF Before, place
    <3>2. shown'[i] = IF i \in page /\ shown[i] < 2 THEN shown[i] + 1 ELSE shown[i]
      BY <1>9
    <3>3. i \notin present => shown'[i] = 0
      BY <1>7, <3>1, <3>2
    <3>4. ASSUME i \in present
          PROVE  shown'[i] = IF place(i) < end THEN 1 ELSE 0
      <4>1. place(i) \in 0..(total - 1)
        BY <1>8, <3>4
      <4>2. i \in page <=> (offset <= place(i) /\ place(i) < end)
        BY <1>7, <2>2, <3>4
      <4>3. CASE place(i) < offset
        BY <1>7, <2>2, <3>1, <3>2, <3>4, <4>1, <4>2, <4>3
      <4>4. CASE offset <= place(i)
        <5>1. shown[i] = 0
          BY <1>7, <3>1, <3>4, <4>1, <4>4
        <5> QED
          BY <1>7, <3>2, <4>1, <4>2, <4>4, <5>1
      <4> QED
        BY <1>7, <4>1, <4>3, <4>4
    <3>5. finished' /\ i \in present => shown'[i] = 1
      <4> SUFFICES ASSUME after' = Nil, i \in present PROVE shown'[i] = 1
        BY <1>9
      <4>1. end = total
        BY <1>7, <1>8, <1>12, <2>2
      <4> QED
        BY <1>8, <3>4, <4>1
    <3>6. ~finished' /\ i \in present => shown'[i] = IF place(i) < Pages!Offset' THEN 1 ELSE 0
      BY <1>9, <2>3, <3>4
    <3> QED
      BY <1>9, <1>10, <3>3, <3>5, <3>6 DEF Before
  <2> QED
    BY <2>4, <2>5
<1> QED
  BY <1>9, <1>13, <1>14 DEF PageInv

\* A row keeps its columns while others change.
LEMMA RowChanges ==
  ASSUME PageInv, NEW j \in Row, Pages!Disturb(j),
         name' \in [Row -> NameRange], at' \in [Row -> Nat], present' \subseteq Row,
         \A i \in Row \ {j} : name'[i] = name[i] /\ at'[i] = at[i] /\ (i \in present' <=> i \in present)
  PROVE  PageInv'
<1>1. /\ ~finished /\ changes \in Nat /\ changes' = changes + 1
      /\ disturbed' = disturbed \cup {j}
      /\ UNCHANGED <<view, limit, after, finished, shown>>
      /\ PageTypes /\ (finished => after = Nil)
      /\ view # "offset" => \A i \in Row \ disturbed : Behind(i)
  BY DEF Pages!Disturb, Pages!walk, PageInv, PageTypes
<1>2. PageTypes'
  BY <1>1 DEF PageTypes, Columns
<1>3. ASSUME view # "offset", NEW i \in Row \ disturbed'
      PROVE  Behind(i)'
  <2>1. i \in Row \ disturbed /\ i # j
    BY <1>1, <1>3
  <2>2. Behind(i) /\ name'[i] = name[i] /\ at'[i] = at[i] /\ (i \in present' <=> i \in present)
    BY <1>1, <1>3, <2>1
  <2>3. Pages!Key(i)' = Pages!Key(i)
    BY <1>1, <2>2 DEF Pages!Key, Pages!FolderKey, Pages!SearchKey, Pages!TrashKey,
                      Pages!UserViewKey, Pages!ActivityKey
  <2> QED
    BY <1>1, <2>2, <2>3 DEF Behind
<1>4. changes' # 0
  BY <1>1
<1> QED
  BY <1>1, <1>2, <1>3, <1>4 DEF PageInv

LEMMA PageStep == PageInv /\ Pages!Next => PageInv'
<1> SUFFICES ASSUME PageInv, Pages!Next PROVE PageInv'
  OBVIOUS
<1>1. CASE Pages!ReadPage
  <2>1. \/ view = "offset" /\ Pages!Show(Pages!OffsetNext)
        \/ view # "offset" /\ Pages!Show(Pages!CursorNext)
    BY <1>1 DEF Pages!ReadPage, Pages!ListDriveCursor, Pages!SearchDriveCursor,
       Pages!ListTrashCursor, Pages!ListUserViewCursor, Pages!ListItemActivity, Pages!ListDrive
  <2> QED
    BY <2>1, CursorShows, OffsetShows
<1>2. CASE Pages!CursorExpires
  <2>1. /\ after # Nil /\ view # "offset" /\ after' = Nil /\ shown' = [i \in Row |-> 0]
        /\ disturbed' = {} /\ UNCHANGED <<view, limit, name, at, present, finished, changes>>
        /\ PageTypes /\ ~finished
    BY <1>2 DEF Pages!CursorExpires, PageInv
  <2>2. PageTypes'
    <3>1. shown' \in [Row -> 0..2]
      BY <2>1
    <3> QED
      BY <2>1, <3>1 DEF PageTypes
  <2>3. \A i \in Row : Behind(i)'
    BY <2>1 DEF Behind
  <2> QED
    BY <2>1, <2>2, <2>3 DEF PageInv
<1>3. ASSUME NEW j \in Row, Pages!Rename(j) \/ Pages!MarkItemOpened(j) \/ Pages!Appear(j) \/ Pages!Disappear(j)
      PROVE  PageInv'
  <2>1. /\ name \in [Row -> NameRange] /\ at \in [Row -> Nat] /\ present \subseteq Row
        /\ changes \in Nat
    BY DEF PageInv, PageTypes
  <2>2. Pages!Disturb(j)
    BY <1>3 DEF Pages!Rename, Pages!MarkItemOpened, Pages!Appear, Pages!Disappear
  <2>3. Pages!Now \in Nat
    <3>1. Cardinality(Time) \in Nat
      BY PageConstants, FS_CardinalityType
    <3> QED
      BY <2>1, <3>1, PageCounts DEF Pages!Now
  <2>4. CASE Pages!Rename(j)
    <3>1. PICK n \in NameRange : name' = [name EXCEPT ![j] = n]
      BY <2>4 DEF Pages!Rename
    <3>2. at' = at /\ present' = present
      BY <2>4 DEF Pages!Rename
    <3>3. name' \in [Row -> NameRange] /\ \A i \in Row \ {j} : name'[i] = name[i]
      BY <2>1, <3>1
    <3> QED
      BY <2>1, <2>2, <3>2, <3>3, RowChanges
  <2>5. CASE Pages!MarkItemOpened(j) \/ Pages!Appear(j)
    <3>1. at' = [at EXCEPT ![j] = Pages!Now] /\ present' = present \cup {j} /\ name' = name
      BY <2>5 DEF Pages!MarkItemOpened, Pages!Appear
    <3>2. at' \in [Row -> Nat] /\ \A i \in Row \ {j} : at'[i] = at[i]
      BY <2>1, <2>3, <3>1
    <3>3. present' \subseteq Row /\ \A i \in Row \ {j} : i \in present' <=> i \in present
      BY <2>1, <3>1
    <3> QED
      BY <2>1, <2>2, <3>1, <3>2, <3>3, RowChanges
  <2>6. CASE Pages!Disappear(j)
    <3>1. present' = present \ {j} /\ name' = name /\ at' = at
      BY <2>6 DEF Pages!Disappear
    <3> QED
      BY <2>1, <2>2, <3>1, RowChanges
  <2> QED
    BY <1>3, <2>4, <2>5, <2>6
<1> QED
  BY <1>1, <1>2, <1>3 DEF Pages!Next

\* A step of another component leaves the walk as it is.
LEMMA PageRests == PageInv /\ UNCHANGED pagesVars => PageInv'
<1> SUFFICES ASSUME PageInv, UNCHANGED pagesVars PROVE PageInv'
  OBVIOUS
<1>1. UNCHANGED <<view, limit, name, at, present, after, finished, shown, disturbed, changes>>
  BY DEF pagesVars
<1>2. PageTypes'
  BY <1>1 DEF PageInv, PageTypes, Columns
<1>3. \A i : Pages!Key(i)' = Pages!Key(i)
  BY <1>1 DEF Pages!Key, Pages!FolderKey, Pages!SearchKey, Pages!TrashKey,
              Pages!UserViewKey, Pages!ActivityKey
<1>4. RowTotal' = RowTotal /\ Pages!Offset' = Pages!Offset /\ \A i : Place(i)' = Place(i)
  BY <1>1, <1>3 DEF RowTotal, Pages!Offset, Place, Pages!Folders, Pages!Files, Pages!Rank
<1>5. /\ \A i : Behind(i)' <=> Behind(i)
      /\ \A i : Before(i)' <=> Before(i)
  BY <1>1, <1>3, <1>4 DEF Behind, Before
<1> QED
  BY <1>1, <1>2, <1>4, <1>5 DEF PageInv

\* The invariant always holds.
LEMMA PageInvariant == Spec => []PageInv
<1>1. Init => PageInv
  BY PageInit DEF Init
<1>2. PageInv /\ [Next]_vars => PageInv'
  BY PageStep, PageRests DEF Next, vars, pagesVars
<1> QED
  BY <1>1, <1>2, PTL DEF Spec

\* A walk shows what stays put exactly once, in whatever listing, however many rows there
\* are, wherever the pages end, and whatever is renamed, opened, added, removed or expires
\* on the way.
THEOREM PagesCorrect == Spec => []ShownExactlyOnce
BY PageInvariant, PageSafe, PTL
=============================================================================
