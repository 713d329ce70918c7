------------------------------ MODULE Accounts ------------------------------
(***************************************************************************)
(* Registration, login and logout (auth_routes) over the users and         *)
(* auth_sessions tables of appdb, as the requests run them: one step per   *)
(* await.  As in ChatTurns all requests share one connection, so what one  *)
(* has written is seen by the others at once and reaches the disk with     *)
(* anybody's next commit.                                                  *)
(*                                                                         *)
(* A user's id, a login's id and the cookie that carries it are named by   *)
(* the request that made them.  A cookie is a signed id and the time it    *)
(* was issued.  now is the wall clock here.                                *)
(***************************************************************************)
EXTENDS Naturals

CONSTANTS
    None,
    Requests, Clients, Emails,
    Passwords,  \* those validate_password accepts
    Old,        \* what made the account and login that exist at the start
    SessionTTL  \* session_ttl_minutes

VARIABLES
    now,
    db,     \* [users, logins]: the tables as the connection sees them
    disk,   \* the tables as a restart would find them
    jar,    \* cookies given to browsers
    visit   \* each request

Owners == Requests \cup {Old}
UserRows == [id : Owners, email : Emails, password : Passwords]
LoginRows == [id : Owners, user : Owners, until : Nat]
Tables == [users : SUBSET UserRows, logins : SUBSET LoginRows]

Kinds == {"register", "login", "logout", "query", "clear"}
Waiting == {"hash", "saveUser", "open", "saveLogin", "find", "verify", "unlogin", "saveOut", "resolve", "who"}
Refused == {"limited", "forbidden", "throttled", "invalid", "conflict", "denied", "unauthorized"}
VisitStates == {"new", "in", "welcome", "out", "done", "lost"} \cup Waiting \cup Refused

Visits == [kind : Kinds \cup {None}, pc : VisitStates, client : Clients \cup {None}, at : Nat, life : Nat,
           cookie : [id : Owners, issued : Nat] \cup {None}, email : Emails \cup {None},
           password : Passwords \cup {None}, user : Owners \cup {None}, until : Nat, late : BOOLEAN]

NewVisit == [kind |-> None, pc |-> "new", client |-> None, at |-> 0, life |-> 0, cookie |-> None,
             email |-> None, password |-> None, user |-> None, until |-> 0, late |-> FALSE]

AccountsTypeOK ==
    /\ db \in Tables /\ disk \in Tables
    /\ jar \subseteq [id : Owners, issued : Nat]
    /\ visit \in [Requests -> Visits]

-----------------------------------------------------------------------------

Go(r, pc) == visit' = [visit EXCEPT ![r].pc = pc]
Reads == UNCHANGED <<db, disk, jar>>

\* fault: conn.commit() forgotten
NoCommit == disk' = disk

Commit == disk' = db

\* fault: the UNIQUE constraint on email is missing
NeverTaken(email) == email \notin Emails

\* the UNIQUE constraint on email
Taken(email) == \E u \in db.users : u.email = email

\* read_session_token: the signature and its age
TokenValid(c) == c # None /\ now =< c.issued + SessionTTL

\* register: the password is hashed before the insert
CreateUser(r) ==
    LET v == visit[r]
    IN  /\ v.pc = "hash"
        /\ IF Taken(v.email)
             THEN Go(r, "conflict") /\ UNCHANGED db
             ELSE /\ Go(r, "saveUser")
                  /\ db' = [db EXCEPT !.users = @ \cup {[id |-> r, email |-> v.email, password |-> v.password]}]
        /\ UNCHANGED <<disk, jar>>

\* the deadline of the login is fixed before its row is inserted
OpenFor(r, user) == visit' = [visit EXCEPT ![r].pc = "open", ![r].user = user, ![r].until = now + SessionTTL]

SaveUser(r) ==
    /\ visit[r].pc = "saveUser"
    /\ OpenFor(r, r)
    /\ Commit /\ UNCHANGED <<db, jar>>

\* create_auth_session
OpenLogin(r) ==
    /\ visit[r].pc = "open"
    /\ Go(r, "saveLogin")
    /\ db' = [db EXCEPT !.logins = @ \cup {[id |-> r, user |-> visit[r].user, until |-> visit[r].until]}]
    /\ UNCHANGED <<disk, jar>>

\* the commit, and the cookies of the response
SaveLogin(r) ==
    /\ visit[r].pc = "saveLogin"
    /\ Go(r, "welcome")
    /\ jar' = jar \cup {[id |-> r, issued |-> now]}
    /\ Commit /\ UNCHANGED db

\* login: get_user_by_email, then the password is verified, against a dummy
\* hash if there is no such user
FindUser(r) ==
    LET mine == {u \in db.users : u.email = visit[r].email}
    IN  /\ visit[r].pc = "find"
        /\ \/ mine = {} /\ Go(r, "verify")
           \/ \E u \in mine : visit' = [visit EXCEPT ![r].pc = "verify", ![r].user = u.id]
        /\ Reads

Verify(r) ==
    /\ visit[r].pc = "verify"
    /\ IF \E u \in db.users : u.id = visit[r].user /\ u.password = visit[r].password
         THEN OpenFor(r, visit[r].user)
         ELSE Go(r, "denied")
    /\ Reads

\* fault: a logout ends every login of its user
EndsAll(l, c) == \E m \in db.logins : m.id = c.id /\ m.user = l.user

\* the row a logout deletes
Ends(l, c) == l.id = c.id

\* logout: delete_auth_session
DropLogin(r) ==
    /\ visit[r].pc = "unlogin"
    /\ Go(r, "saveOut")
    /\ db' = [db EXCEPT !.logins = {l \in @ : ~Ends(l, visit[r].cookie)}]
    /\ UNCHANGED <<disk, jar>>

SaveOut(r) ==
    /\ visit[r].pc = "saveOut"
    /\ Go(r, "out")
    /\ Commit /\ UNCHANGED <<db, jar>>

\* get_auth_session: WHERE id = ? AND expires_at > ?
LiveLogin(c) == {l \in db.logins : l.id = c.id /\ l.until > now}

\* _resolve_session: the login row, then the user, in two awaits
Resolve(r) ==
    /\ visit[r].pc = "resolve"
    /\ \/ LiveLogin(visit[r].cookie) = {} /\ Go(r, "in")
       \/ \E l \in LiveLogin(visit[r].cookie) :
            visit' = [visit EXCEPT ![r].pc = "who", ![r].user = l.user]
    /\ Reads

LoadUser(r) ==
    /\ visit[r].pc = "who"
    /\ visit' = [visit EXCEPT ![r].pc = "in",
                             ![r].user = IF \E u \in db.users : u.id = visit[r].user THEN visit[r].user ELSE None]
    /\ Reads

\* cleanup_expired_sessions
CleanUp ==
    /\ db' = [db EXCEPT !.logins = {l \in @ : l.until > now}]
    /\ disk' = db'
    /\ UNCHANGED <<jar, visit>>

AccountStep(r) ==
    \/ CreateUser(r) \/ SaveUser(r) \/ OpenLogin(r) \/ SaveLogin(r)
    \/ FindUser(r) \/ Verify(r) \/ DropLogin(r) \/ SaveOut(r)
    \/ Resolve(r) \/ LoadUser(r)
=============================================================================
