----------------------------- MODULE Gate_proofs -----------------------------
(***************************************************************************)
(* Machine-checked proofs about Gate, for any clients, accounts, requests, *)
(* limits, model answers and crashes: types, start-up, the translation of  *)
(* questions and the cache it uses.                                        *)
(***************************************************************************)
EXTENDS Gate, TTLCache_proofs

(***************************************************************************)
(* Type correctness of the accounts and of start-up.                       *)
(***************************************************************************)

\* The accounts tables are typed because who opens a login knows its user, and
\* who creates an account gave an email and a password.
AccountsType ==
    /\ A!AccountsTypeOK
    /\ \A r \in Requests :
         /\ visit[r].pc \in {"hash", "find"} => visit[r].email \in Emails
         /\ visit[r].pc = "hash" => visit[r].password \in Passwords
         /\ visit[r].pc = "open" => visit[r].user \in A!Owners

LEMMA OldIsOwner == Requests \subseteq A!Owners /\ Old \in A!Owners
BY DEF A!Owners

\* The updates of a request's record.
LEMMA VisitUpdate ==
    ASSUME NEW v \in A!Visits, NEW p \in A!VisitStates, NEW u \in A!Owners \cup {None}, NEW n \in Nat
    PROVE  /\ [v EXCEPT !.pc = p] \in A!Visits
           /\ [v EXCEPT !.pc = p, !.user = u] \in A!Visits
           /\ [v EXCEPT !.pc = p, !.user = u, !.until = n] \in A!Visits
<1>1. [v EXCEPT !.pc = p] \in A!Visits  BY ZenonT(60) DEF A!Visits
<1>2. [v EXCEPT !.pc = p, !.user = u] \in A!Visits  BY ZenonT(60) DEF A!Visits
<1>3. [v EXCEPT !.pc = p, !.user = u, !.until = n] \in A!Visits  BY ZenonT(60) DEF A!Visits
<1>4. QED  BY <1>1, <1>2, <1>3

\* A step of one request's record to w, with typed tables.
LEMMA VisitStep ==
    ASSUME AccountsType, NEW r \in Requests, NEW w \in A!Visits, visit' = [visit EXCEPT ![r] = w],
           w.pc \in {"hash", "find"} => w.email \in Emails,
           w.pc = "hash" => w.password \in Passwords,
           w.pc = "open" => w.user \in A!Owners,
           db' \in A!Tables, disk' \in A!Tables, jar' \subseteq [id : A!Owners, issued : Nat]
    PROVE  AccountsType'
<1>1. visit' \in [Requests -> A!Visits]  BY DEF AccountsType, A!AccountsTypeOK
<1>2. A!AccountsTypeOK'  BY <1>1 DEF A!AccountsTypeOK
<1>3. QED  BY <1>2 DEF AccountsType, A!AccountsTypeOK

LEMMA AccountStepType ==
    ASSUME AccountsType, now \in Nat, NEW r \in Requests, A!AccountStep(r)
    PROVE  AccountsType'
<1> DEFINE v == visit[r]
<1>0. /\ v \in A!Visits /\ visit \in [Requests -> A!Visits] /\ db \in A!Tables /\ disk \in A!Tables
      /\ jar \subseteq [id : A!Owners, issued : Nat] /\ r \in A!Owners
      /\ now + SessionTTL \in Nat
  BY OldIsOwner, GateConstants DEF AccountsType, A!AccountsTypeOK
<1>1. ASSUME NEW p \in A!VisitStates \ {"hash", "find", "open"}, A!Go(r, p),
             db' \in A!Tables, disk' \in A!Tables, jar' \subseteq [id : A!Owners, issued : Nat]
      PROVE  AccountsType'
  <2> DEFINE w == [v EXCEPT !.pc = p]
  <2>1. w \in A!Visits  BY <1>0, VisitUpdate
  <2>2. w.pc = p  BY <1>0 DEF A!Visits
  <2>3. visit' = [visit EXCEPT ![r] = w]  BY <1>1 DEF A!Go
  <2> HIDE DEF w
  <2>4. QED  BY <1>1, <2>1, <2>2, <2>3, VisitStep
<1>2. ASSUME NEW u \in A!Owners, A!OpenFor(r, u),
             db' \in A!Tables, disk' \in A!Tables, jar' \subseteq [id : A!Owners, issued : Nat]
      PROVE  AccountsType'
  <2> DEFINE w == [v EXCEPT !.pc = "open", !.user = u, !.until = now + SessionTTL]
  <2>1. w \in A!Visits  BY <1>0, VisitUpdate DEF A!VisitStates, A!Waiting
  <2>2. w.pc = "open" /\ w.user = u  BY <1>0 DEF A!Visits
  <2>3. visit' = [visit EXCEPT ![r] = w]  BY <1>2 DEF A!OpenFor
  <2> HIDE DEF w
  <2>4. QED  BY <1>2, <2>1, <2>2, <2>3, VisitStep
<1>3. ASSUME NEW p \in {"verify", "who", "in"}, NEW u \in A!Owners \cup {None},
             visit' = [visit EXCEPT ![r].pc = p, ![r].user = u], UNCHANGED <<db, disk, jar>>
      PROVE  AccountsType'
  <2> DEFINE w == [v EXCEPT !.pc = p, !.user = u]
  <2>1. w \in A!Visits  BY <1>0, VisitUpdate DEF A!VisitStates, A!Waiting
  <2>2. w.pc = p  BY <1>0 DEF A!Visits
  <2>3. visit' = [visit EXCEPT ![r] = w]  BY <1>3
  <2> HIDE DEF w
  <2>4. QED  BY <1>0, <1>3, <2>1, <2>2, <2>3, VisitStep
<1>4. CASE A!CreateUser(r)
  <2>1. v.email \in Emails /\ v.password \in Passwords  BY <1>4 DEF A!CreateUser, AccountsType
  <2>2. db' \in A!Tables  BY <1>0, <1>4, <2>1 DEF A!CreateUser, A!Tables, A!UserRows
  <2>3. QED  BY <1>0, <1>1, <1>4, <2>2 DEF A!CreateUser, A!VisitStates, A!Waiting, A!Refused
<1>5. CASE A!SaveUser(r)  BY <1>0, <1>2, <1>5 DEF A!SaveUser, A!Commit
<1>6. CASE A!OpenLogin(r)
  <2>1. v.user \in A!Owners /\ v.until \in Nat  BY <1>0, <1>6 DEF A!OpenLogin, AccountsType, A!Visits
  <2>2. db' \in A!Tables  BY <1>0, <1>6, <2>1 DEF A!OpenLogin, A!Tables, A!LoginRows
  <2>3. QED  BY <1>0, <1>1, <1>6, <2>2 DEF A!OpenLogin, A!VisitStates, A!Waiting
<1>7. CASE A!SaveLogin(r)
  BY <1>0, <1>1, <1>7 DEF A!SaveLogin, A!Commit, A!VisitStates
<1>8. CASE A!FindUser(r)
  <2>1. \A u \in db.users : u.id \in A!Owners  BY <1>0 DEF A!Tables, A!UserRows
  <2>2. QED  BY <1>0, <1>1, <1>3, <1>8, <2>1 DEF A!FindUser, A!Reads, A!VisitStates, A!Waiting
<1>9. CASE A!Verify(r)
  <2>1. \A u \in db.users : u.id \in A!Owners  BY <1>0 DEF A!Tables, A!UserRows
  <2>2. QED  BY <1>0, <1>1, <1>2, <1>9, <2>1 DEF A!Verify, A!Reads, A!VisitStates, A!Refused
<1>10. CASE A!DropLogin(r)
  <2>1. db' \in A!Tables  BY <1>0, <1>10 DEF A!DropLogin, A!Tables
  <2>2. QED  BY <1>0, <1>1, <1>10, <2>1 DEF A!DropLogin, A!VisitStates, A!Waiting
<1>11. CASE A!SaveOut(r)
  BY <1>0, <1>1, <1>11 DEF A!SaveOut, A!Commit, A!VisitStates
<1>12. CASE A!Resolve(r)
  <2>1. \A l \in A!LiveLogin(v.cookie) : l.user \in A!Owners
    BY <1>0 DEF A!LiveLogin, A!Tables, A!LoginRows
  <2>2. QED  BY <1>0, <1>1, <1>3, <1>12, <2>1 DEF A!Resolve, A!Reads, A!VisitStates
<1>13. CASE A!LoadUser(r)
  <2>1. v.user \in A!Owners \cup {None}  BY <1>0 DEF A!Visits
  <2>2. QED  BY <1>0, <1>3, <1>13, <2>1 DEF A!LoadUser, A!Reads
<1>14. QED
  BY <1>4, <1>5, <1>6, <1>7, <1>8, <1>9, <1>10, <1>11, <1>12, <1>13 DEF A!AccountStep

(***************************************************************************)
(* What a step does to the requests: one arrives, one goes on, or one is   *)
(* refused at the cache's door.                                            *)
(***************************************************************************)

\* The record of a request r that has just arrived, when the limiters answered.
Arrived(r, w) ==
    /\ w.at = now /\ w.life = crashes /\ w.user = None /\ w.client \in Clients
    /\ w.late = (w.cookie # None /\ w.cookie.id \in LoggedOut)
    /\ w.kind \in A!Kinds
    /\ w.cookie # None => w.cookie \in jar /\ w.kind \notin {"register", "login"}
    /\ w.kind \in {"register", "login"} => w.email \in Emails
    /\ w.pc \in {"limited", "forbidden", "throttled", "find", "hash", "invalid", "unlogin", "out", "resolve", "in"}
    /\ w.pc = "find" => w.kind = "login"
    /\ w.pc \in {"hash", "invalid"} => w.kind = "register"
    /\ w.pc = "hash" => w.password \in Passwords
    /\ w.pc \in {"unlogin", "out"} => w.kind = "logout"
    /\ w.pc \in {"resolve", "in"} => w.kind \in {"query", "clear"}
    /\ w.pc \in {"unlogin", "resolve"} => w.cookie # None
    /\ w.pc = "out" => ~A!TokenValid(w.cookie)

\* What the limiters make of it
Metered(r, w) ==
    LET new == [by |-> r, at |-> now]
        key == <<w.email, w.client>>
    IN  /\ hits' = [hits EXCEPT ![w.client] = Counted(@, RateMax, RateWindow, new)]
        /\ w.pc = "limited" <=> ~Allowed(hits[w.client], RateMax, RateWindow, now)
        /\ \/ /\ w.kind \in {"register", "login"} /\ w.pc \notin {"limited", "forbidden"}
              /\ tries' = [tries EXCEPT ![key] = Counted(@, AuthMax, AuthWindow, new)]
              /\ w.pc = "throttled" <=> ~Allowed(tries[key], AuthMax, AuthWindow, now)
           \/ /\ w.kind \notin {"register", "login"} \/ w.pc \in {"limited", "forbidden"}
              /\ w.pc # "throttled"
              /\ tries' = tries

\* A request as its client sends it
Sent(v) ==
    /\ v \in A!Visits /\ v.user = None /\ v.client \in Clients /\ v.kind \in A!Kinds
    /\ v.cookie # None => v.cookie \in jar /\ v.kind \notin {"register", "login"}
    /\ v.kind \in {"register", "login"} => v.email \in Emails

LEMMA Sending ==
    ASSUME AccountsType, NEW r \in Requests, Client(r)
    PROVE  \E v : Sent(v) /\ Arrive(r, v)
<1> DEFINE From(kind, c) == [A!NewVisit EXCEPT !.kind = kind, !.client = c]
<1>1. PICK c \in Clients :
        \/ \E k \in {"register", "login"}, e \in Emails, p \in Passwords \cup {None} :
              Arrive(r, [From(k, c) EXCEPT !.email = e, !.password = p])
        \/ \E k \in {"logout", "query", "clear"}, w \in jar \cup {None} :
              Arrive(r, [From(k, c) EXCEPT !.cookie = w])
  BY DEF Client
<1>2. ASSUME NEW k \in A!Kinds
      PROVE  /\ From(k, c) \in A!Visits /\ From(k, c).kind = k /\ From(k, c).client = c
             /\ From(k, c).user = None /\ From(k, c).cookie = None
  <2>1. A!NewVisit \in A!Visits  BY DEF A!NewVisit, A!Visits, A!VisitStates
  <2>2. A!NewVisit.user = None /\ A!NewVisit.cookie = None  BY DEF A!NewVisit
  <2>3. From(k, c) \in A!Visits  BY <2>1, ZenonT(60) DEF A!Visits
  <2>4. /\ From(k, c).kind = k /\ From(k, c).client = c
        /\ From(k, c).user = None /\ From(k, c).cookie = None
    BY <2>1, <2>2 DEF A!Visits
  <2>5. QED  BY <2>3, <2>4
<1> HIDE DEF From
<1>3. ASSUME NEW k \in {"register", "login"}, NEW e \in Emails, NEW p \in Passwords \cup {None}
      PROVE  Sent([From(k, c) EXCEPT !.email = e, !.password = p])
  <2> DEFINE v == [From(k, c) EXCEPT !.email = e, !.password = p]
  <2>1. k \in A!Kinds  BY DEF A!Kinds
  <2>2. v \in A!Visits  BY <1>2, <2>1, ZenonT(60) DEF A!Visits
  <2>3. v.user = None /\ v.client = c /\ v.kind = k /\ v.cookie = None /\ v.email = e
    BY <1>2, <2>1 DEF A!Visits
  <2> HIDE DEF v
  <2>4. Sent(v)  BY <2>1, <2>2, <2>3 DEF Sent
  <2>5. QED  BY <2>4 DEF v
<1>4. ASSUME NEW k \in {"logout", "query", "clear"}, NEW w \in jar \cup {None}
      PROVE  Sent([From(k, c) EXCEPT !.cookie = w])
  <2> DEFINE v == [From(k, c) EXCEPT !.cookie = w]
  <2>1. k \in A!Kinds  BY DEF A!Kinds
  <2>2. w \in [id : A!Owners, issued : Nat] \cup {None}  BY DEF AccountsType, A!AccountsTypeOK
  <2>3. v \in A!Visits  BY <1>2, <2>1, <2>2, ZenonT(60) DEF A!Visits
  <2>4. v.user = None /\ v.client = c /\ v.kind = k /\ v.cookie = w
    BY <1>2, <2>1, <2>2 DEF A!Visits
  <2> HIDE DEF v
  <2>5. Sent(v)  BY <2>1, <2>3, <2>4 DEF Sent
  <2>6. QED  BY <2>5 DEF v
<1>5. QED  BY <1>1, <1>3, <1>4

\* The record of a request as it enters
LEMMA Entering ==
    ASSUME NEW v \in A!Visits, NEW p \in A!VisitStates, NEW r \in Requests, Enter(r, v, p),
           now \in Nat, crashes \in Nat
    PROVE  \E w \in A!Visits :
             /\ visit' = [visit EXCEPT ![r] = w]
             /\ w.pc = p /\ w.at = now /\ w.life = crashes
             /\ w.late = (v.cookie # None /\ v.cookie.id \in LoggedOut)
             /\ w.kind = v.kind /\ w.client = v.client /\ w.cookie = v.cookie /\ w.email = v.email
             /\ w.password = v.password /\ w.user = v.user /\ w.until = v.until
<1> DEFINE l == v.cookie # None /\ v.cookie.id \in LoggedOut
           w == [v EXCEPT !.pc = p, !.at = now, !.life = crashes, !.late = l]
<1>1. l \in BOOLEAN  OBVIOUS
<1>2. visit' = [visit EXCEPT ![r] = w]  BY DEF Enter
<1> HIDE DEF l
<1>3. w \in A!Visits  BY <1>1, ZenonT(60) DEF A!Visits
<1>4. /\ w.pc = p /\ w.at = now /\ w.life = crashes /\ w.late = l
      /\ w.kind = v.kind /\ w.client = v.client /\ w.cookie = v.cookie /\ w.email = v.email
      /\ w.password = v.password /\ w.user = v.user /\ w.until = v.until
  BY DEF A!Visits
<1> HIDE DEF w
<1>5. QED  BY <1>2, <1>3, <1>4 DEF l

LEMMA ClientStep ==
    ASSUME AccountsType, now \in Nat, crashes \in Nat, NEW r \in Requests, Client(r)
    PROVE  /\ boot.pc = "up" /\ loop = None /\ visit[r].pc = "new"
           /\ UNCHANGED <<now, translation, db, disk, jar, started>>
           /\ \E w \in A!Visits : visit' = [visit EXCEPT ![r] = w] /\ Arrived(r, w) /\ Metered(r, w)
<1>1. PICK v : Sent(v) /\ Arrive(r, v)  BY Sending
<1>2. v \in A!Visits  BY <1>1 DEF Sent
<1>3. ASSUME NEW p \in {"limited", "forbidden", "throttled", "find", "hash", "invalid", "unlogin", "out", "resolve", "in"},
             Enter(r, v, p),
             p = "find" => v.kind = "login",
             p \in {"hash", "invalid"} => v.kind = "register",
             p = "hash" => v.password \in Passwords,
             p \in {"unlogin", "out"} => v.kind = "logout",
             p \in {"resolve", "in"} => v.kind \in {"query", "clear"},
             p \in {"unlogin", "resolve"} => v.cookie # None,
             p = "out" => ~A!TokenValid(v.cookie),
             p = "limited" <=> ~Allowed(hits[v.client], RateMax, RateWindow, now),
             \/ /\ v.kind \in {"register", "login"} /\ p \notin {"limited", "forbidden"}
                /\ tries' = [tries EXCEPT ![<<v.email, v.client>>] =
                               Counted(@, AuthMax, AuthWindow, [by |-> r, at |-> now])]
                /\ p = "throttled" <=> ~Allowed(tries[<<v.email, v.client>>], AuthMax, AuthWindow, now)
             \/ /\ v.kind \notin {"register", "login"} \/ p \in {"limited", "forbidden"}
                /\ p # "throttled"
                /\ tries' = tries
      PROVE  \E w \in A!Visits : visit' = [visit EXCEPT ![r] = w] /\ Arrived(r, w) /\ Metered(r, w)
  <2>1. p \in A!VisitStates  BY DEF A!VisitStates, A!Waiting, A!Refused
  <2>2. PICK w \in A!Visits :
             /\ visit' = [visit EXCEPT ![r] = w]
             /\ w.pc = p /\ w.at = now /\ w.life = crashes
             /\ w.late = (v.cookie # None /\ v.cookie.id \in LoggedOut)
             /\ w.kind = v.kind /\ w.client = v.client /\ w.cookie = v.cookie /\ w.email = v.email
             /\ w.password = v.password /\ w.user = v.user /\ w.until = v.until
    BY <1>2, <1>3, <2>1, Entering
  <2>3. Arrived(r, w)  BY <1>1, <1>3, <2>2 DEF Sent, Arrived
  <2>4. hits' = [hits EXCEPT ![v.client] = Counted(@, RateMax, RateWindow, [by |-> r, at |-> now])]
    BY <1>1 DEF Arrive
  <2>5. Metered(r, w)  BY <1>3, <2>2, <2>4 DEF Metered
  <2>6. QED  BY <2>2, <2>3, <2>5
<1>4. \E w \in A!Visits : visit' = [visit EXCEPT ![r] = w] /\ Arrived(r, w) /\ Metered(r, w)
  <2>1. CASE ~Allowed(hits[v.client], RateMax, RateWindow, now)
    <3>1. Enter(r, v, "limited") /\ tries' = tries  BY <1>1, <2>1 DEF Arrive
    <3>2. QED  BY <1>3, <2>1, <3>1
  <2>2. CASE Allowed(hits[v.client], RateMax, RateWindow, now)
    <3>1. CASE Forbidden(r, v)
      BY <1>3, <2>2, <3>1 DEF Forbidden
    <3>2. CASE Authenticate(r, v)
      <4> DEFINE key == <<v.email, v.client>>
                 ok == Allowed(tries[key], AuthMax, AuthWindow, now)
      <4>1. /\ v.kind \in {"register", "login"}
            /\ tries' = [tries EXCEPT ![key] = Counted(@, AuthMax, AuthWindow, [by |-> r, at |-> now])]
        BY <3>2 DEF Authenticate
      <4>2. \/ ~ok /\ Enter(r, v, "throttled")
            \/ ok /\ v.kind = "login" /\ Enter(r, v, "find")
            \/ ok /\ v.kind = "register" /\ v.password = None /\ Enter(r, v, "invalid")
            \/ ok /\ v.kind = "register" /\ v.password # None /\ Enter(r, v, "hash")
        BY <3>2 DEF Authenticate
      <4>3. v.password # None => v.password \in Passwords  BY <1>2 DEF A!Visits
      <4> HIDE DEF ok
      <4>4. CASE ~ok /\ Enter(r, v, "throttled")  BY <1>3, <2>2, <4>1, <4>4 DEF ok
      <4>5. CASE ok /\ v.kind = "login" /\ Enter(r, v, "find")  BY <1>3, <2>2, <4>1, <4>5 DEF ok
      <4>6. CASE ok /\ v.kind = "register" /\ v.password = None /\ Enter(r, v, "invalid")
        BY <1>3, <2>2, <4>1, <4>6 DEF ok
      <4>7. CASE ok /\ v.kind = "register" /\ v.password # None /\ Enter(r, v, "hash")
        BY <1>3, <2>2, <4>1, <4>3, <4>7 DEF ok
      <4>8. QED  BY <4>2, <4>4, <4>5, <4>6, <4>7
    <3>3. CASE Identify(r, v)
      <4>1. v.kind \in {"logout", "query", "clear"} /\ tries' = tries  BY <3>3 DEF Identify
      <4>2. \/ v.kind = "logout" /\ v.cookie # None /\ Enter(r, v, "unlogin")
            \/ v.kind = "logout" /\ ~A!TokenValid(v.cookie) /\ Enter(r, v, "out")
            \/ v.kind # "logout" /\ v.cookie # None /\ Enter(r, v, "resolve")
            \/ v.kind # "logout" /\ Enter(r, v, "in")
        BY <3>3 DEF Identify, A!TokenValid
      <4>3. CASE v.kind = "logout" /\ v.cookie # None /\ Enter(r, v, "unlogin")  BY <1>3, <2>2, <4>1, <4>3
      <4>4. CASE v.kind = "logout" /\ ~A!TokenValid(v.cookie) /\ Enter(r, v, "out")
        BY <1>3, <2>2, <4>1, <4>4
      <4>5. CASE v.kind # "logout" /\ v.cookie # None /\ Enter(r, v, "resolve")  BY <1>3, <2>2, <4>1, <4>5
      <4>6. CASE v.kind # "logout" /\ Enter(r, v, "in")  BY <1>3, <2>2, <4>1, <4>6
      <4>7. QED  BY <4>2, <4>3, <4>4, <4>5, <4>6
    <3>4. QED  BY <1>1, <2>2, <3>1, <3>2, <3>3 DEF Arrive
  <2>3. QED  BY <2>1, <2>2
<1>5. /\ boot.pc = "up" /\ loop = None /\ visit[r].pc = "new"
      /\ UNCHANGED <<now, translation, db, disk, jar, started>>
  BY <1>1 DEF Arrive
<1>6. QED  BY <1>4, <1>5

\* A request that goes on keeps what it came with.
LEMMA ServeStep ==
    ASSUME AccountsType, now \in Nat, NEW r \in Requests, Serve(r)
    PROVE  /\ boot.pc = "up" /\ loop = None /\ visit[r].pc \in A!Waiting
           /\ UNCHANGED <<now, translation, limits, started>>
           /\ \E w : /\ visit' = [visit EXCEPT ![r] = w]
                     /\ w.pc \in A!Waiting \cup {"conflict", "denied", "welcome", "out", "in"}
                     /\ w.at = visit[r].at /\ w.life = visit[r].life /\ w.kind = visit[r].kind
                     /\ w.client = visit[r].client /\ w.email = visit[r].email
                     /\ w.password = visit[r].password /\ w.cookie = visit[r].cookie
                     /\ w.late = visit[r].late
<1> DEFINE v == visit[r]
           Kept(w) == /\ visit' = [visit EXCEPT ![r] = w]
                      /\ w.pc \in A!Waiting \cup {"conflict", "denied", "welcome", "out", "in"}
                      /\ w.at = v.at /\ w.life = v.life /\ w.kind = v.kind
                      /\ w.client = v.client /\ w.email = v.email
                      /\ w.password = v.password /\ w.cookie = v.cookie /\ w.late = v.late
<1>0. v \in A!Visits  BY DEF AccountsType, A!AccountsTypeOK
<1>1. ASSUME NEW p \in A!Waiting \cup {"conflict", "denied", "welcome", "out", "in"}, A!Go(r, p)
      PROVE  \E w : Kept(w)
  <2>1. visit' = [visit EXCEPT ![r] = [v EXCEPT !.pc = p]]  BY <1>1 DEF A!Go
  <2>2. Kept([v EXCEPT !.pc = p])  BY <1>0, <2>1 DEF A!Visits
  <2>3. QED  BY <2>2
<1>2. ASSUME NEW p \in {"verify", "who", "in"}, NEW u, visit' = [visit EXCEPT ![r].pc = p, ![r].user = u]
      PROVE  \E w : Kept(w)
  <2>1. visit' = [visit EXCEPT ![r] = [v EXCEPT !.pc = p, !.user = u]]  BY <1>2
  <2>2. Kept([v EXCEPT !.pc = p, !.user = u])  BY <1>0, <2>1 DEF A!Visits, A!Waiting
  <2>3. QED  BY <2>2
<1>3. ASSUME NEW u, A!OpenFor(r, u) PROVE \E w : Kept(w)
  <2>1. visit' = [visit EXCEPT ![r] = [v EXCEPT !.pc = "open", !.user = u, !.until = now + SessionTTL]]
    BY <1>3 DEF A!OpenFor
  <2>2. Kept([v EXCEPT !.pc = "open", !.user = u, !.until = now + SessionTTL])
    BY <1>0, <2>1 DEF A!Visits, A!Waiting
  <2>3. QED  BY <2>2
<1> HIDE DEF Kept
<1>4. A!AccountStep(r)  BY DEF Serve
<1>5. (\E w : Kept(w)) /\ v.pc \in A!Waiting
  <2>1. CASE A!CreateUser(r)  BY <2>1, <1>1 DEF A!CreateUser, A!Waiting
  <2>2. CASE A!SaveUser(r)  BY <2>2, <1>3 DEF A!SaveUser, A!Waiting
  <2>3. CASE A!OpenLogin(r)  BY <2>3, <1>1 DEF A!OpenLogin, A!Waiting
  <2>4. CASE A!SaveLogin(r)  BY <2>4, <1>1 DEF A!SaveLogin, A!Waiting
  <2>5. CASE A!FindUser(r)  BY <2>5, <1>1, <1>2 DEF A!FindUser, A!Waiting
  <2>6. CASE A!Verify(r)  BY <2>6, <1>1, <1>3 DEF A!Verify, A!Waiting
  <2>7. CASE A!DropLogin(r)  BY <2>7, <1>1 DEF A!DropLogin, A!Waiting
  <2>8. CASE A!SaveOut(r)  BY <2>8, <1>1 DEF A!SaveOut, A!Waiting
  <2>9. CASE A!Resolve(r)  BY <2>9, <1>1, <1>2 DEF A!Resolve, A!Waiting
  <2>10. CASE A!LoadUser(r)  BY <2>10, <1>2 DEF A!LoadUser, A!Waiting
  <2>11. QED  BY <1>4, <2>1, <2>2, <2>3, <2>4, <2>5, <2>6, <2>7, <2>8, <2>9, <2>10 DEF A!AccountStep
<1>6. \E w : Kept(w)  BY <1>5
<1>7. boot.pc = "up" /\ loop = None /\ UNCHANGED <<now, translation, limits, started>>  BY DEF Serve
<1>8. QED  BY <1>5, <1>6, <1>7 DEF Kept

(***************************************************************************)
(* Start-up.  A script is recorded only when both its tables are there,    *)
(* and the tables are on disk, so wherever a crash cuts a start short the  *)
(* next one repeats at most a script whose statements do no harm twice.    *)
(***************************************************************************)
ScriptTables(m) == {Scripts[m][i] : i \in 1..2}

BootInv ==
    /\ boot \in [pc : {"down", "next", "script", "record", "clean", "up", "failed"}, m : 0..2, line : 0..3]
    /\ tables \subseteq AllTables /\ versions \subseteq Versions
    /\ boot.pc # "failed"
    /\ boot.pc \in {"script", "record"} => boot.m \in Versions
    /\ boot.pc = "script" => boot.line \in 1..2 /\ (boot.line = 2 => Scripts[boot.m][1] \in tables)
    /\ boot.pc = "record" => ScriptTables(boot.m) \subseteq tables
    /\ \A m \in versions : ScriptTables(m) \subseteq tables
    /\ boot.pc \in {"clean", "up"} => versions = Versions

LEMMA VersionsAre == Versions = 1..2
BY DEF Versions, Scripts

LEMMA ScriptTablesAre ==
    ASSUME NEW m \in Versions
    PROVE  ScriptTables(m) = {Scripts[m][1], Scripts[m][2]} /\ ScriptTables(m) \subseteq AllTables
<1> HIDE DEF Versions, Scripts
<1>1. ScriptTables(m) = {Scripts[m][1], Scripts[m][2]}  BY DEF ScriptTables
<1>2. QED  BY <1>1 DEF AllTables

LEMMA BootType ==
    ASSUME NEW p \in {"down", "next", "script", "record", "clean", "up"}, NEW m \in 0..2, NEW l \in 0..3, Boot(p, m, l)
    PROVE  /\ boot' \in [pc : {"down", "next", "script", "record", "clean", "up", "failed"}, m : 0..2, line : 0..3]
           /\ boot'.pc = p /\ boot'.m = m /\ boot'.line = l
BY DEF Boot

LEMMA BootKept == ASSUME BootInv, UNCHANGED started PROVE BootInv'
BY DEF BootInv, started, AllTables, ScriptTables

LEMMA BootSteps ==
    ASSUME BootInv, StartUp \/ Crash
    PROVE  BootInv'
<1>1. CASE Start
  <2>1. boot'.pc = "down" \/ boot'.pc = "next"  BY <1>1, BootType DEF Start
  <2>2. BootInv'  BY <1>1, <2>1, BootType DEF Start, BootInv
  <2>3. QED  BY <2>2
<1>2. CASE NextMigration
  <2>1. CASE {m \in Versions : m \notin versions} = {}
    <3>1. Boot("clean", 0, 0) /\ versions = Versions  BY <1>2, <2>1 DEF NextMigration, BootInv
    <3>2. QED  BY <1>2, <3>1, BootType DEF NextMigration, BootInv
  <2>2. CASE {m \in Versions : m \notin versions} # {}
    <3>1. PICK m \in Versions : Boot("script", m, 1)  BY <1>2, <2>2 DEF NextMigration
    <3>2. m \in 1..2  BY VersionsAre
    <3>3. QED  BY <1>2, <3>1, <3>2, BootType DEF NextMigration, BootInv
  <2>3. QED  BY <2>1, <2>2
<1>3. CASE RunStatement
  <2> DEFINE t == Scripts[boot.m][boot.line]
  <2>1. boot.pc = "script" /\ boot.m \in Versions /\ boot.line \in 1..2  BY <1>3 DEF RunStatement, BootInv
  <2>2. boot.m \in 0..2 /\ boot.line + 1 \in 0..3  BY <2>1, VersionsAre
  <2>3. t \in ScriptTables(boot.m)  BY <2>1 DEF ScriptTables
  <2>4. t \in AllTables  BY <2>1, <2>3, ScriptTablesAre
  <2>5. tables' = tables \cup {t} /\ UNCHANGED versions
        /\ Boot(IF boot.line = 2 THEN "record" ELSE "script", boot.m, boot.line + 1)
    BY <1>3, <2>4 DEF RunStatement, Fails
  <2>6. CASE boot.line = 2
    <3>1. ScriptTables(boot.m) \subseteq tables'  BY <2>1, <2>5, <2>6, ScriptTablesAre DEF BootInv
    <3>2. Boot("record", boot.m, boot.line + 1)  BY <2>5, <2>6
    <3>3. boot'.pc = "record" /\ boot'.m = boot.m /\ boot'.line = boot.line + 1
          /\ boot' \in [pc : {"down", "next", "script", "record", "clean", "up", "failed"}, m : 0..2, line : 0..3]
      BY <2>2, <3>2, BootType
    <3>4. QED  BY <2>1, <2>4, <2>5, <3>1, <3>3 DEF BootInv
  <2>7. CASE boot.line = 1
    <3>1. Boot("script", boot.m, boot.line + 1)  BY <2>5, <2>7
    <3>2. boot'.pc = "script" /\ boot'.m = boot.m /\ boot'.line = 2
          /\ boot' \in [pc : {"down", "next", "script", "record", "clean", "up", "failed"}, m : 0..2, line : 0..3]
      BY <2>2, <2>7, <3>1, BootType
    <3>3. Scripts[boot'.m][1] \in tables'  BY <2>5, <2>7, <3>2
    <3>4. QED  BY <2>1, <2>4, <2>5, <3>2, <3>3 DEF BootInv
  <2>8. QED  BY <2>1, <2>6, <2>7
<1>4. CASE Record
  <2>1. boot.m \in Versions /\ ScriptTables(boot.m) \subseteq tables  BY <1>4 DEF Record, BootInv
  <2>2. versions' = versions \cup {boot.m} /\ UNCHANGED tables /\ Boot("next", 0, 0)  BY <1>4 DEF Record
  <2>3. QED  BY <2>1, <2>2, BootType DEF BootInv
<1>5. CASE Ready
  BY <1>5, BootType DEF Ready, BootInv
<1>6. CASE Crash
  BY <1>6, BootType DEF Crash, BootInv
<1>7. QED  BY <1>1, <1>2, <1>3, <1>4, <1>5, <1>6 DEF StartUp

\* What is started has all its tables.
LEMMA BootStarts == BootInv => StartsAfterCrash
<1> SUFFICES ASSUME BootInv PROVE StartsAfterCrash  OBVIOUS
<1>1. ASSUME versions = Versions PROVE AllTables \subseteq tables
  <2> SUFFICES ASSUME NEW m \in Versions, NEW i \in 1..2 PROVE Scripts[m][i] \in tables
    BY DEF AllTables
  <2>1. ScriptTables(m) \subseteq tables  BY <1>1 DEF BootInv
  <2>2. QED  BY <2>1 DEF ScriptTables
<1>2. QED  BY <1>1 DEF BootInv, StartsAfterCrash, ScriptTables

(***************************************************************************)
(* The translation of questions.                                           *)
(*                                                                         *)
(* Fits says what the record w of request r's translation owes to the rest *)
(* of the state: a cached answer is a call that was told, and is held by   *)
(* the one request that has the event loop; a call of the model is due     *)
(* within its timeout, and the calls before it took theirs at most.        *)
(***************************************************************************)
Asks == [pc : AskStates, key : Keys \cup {None}, tries : 0..Attempts, began : Nat, due : Nat,
         waited : Nat, plan : Values \cup {None}, done : Nat]

CachedFits(r, w) ==
    w.pc = "cached" => loop = r /\ w.key \in Keys /\ w.plan \in Values /\ Single(w.plan) /\ <<w.key, w.plan>> \in told

TimeFits(w) ==
    /\ w.pc \in {"idle", "cached"} => w.waited = 0
    /\ w.pc \in {"call", "chain", "format"} => w.waited =< Attempts * Timeout
    /\ w.pc \in OnModel => w.began =< now /\ now =< w.due /\ w.due =< w.began + Timeout
    /\ w.pc = "calling" => w.key \in Keys /\ w.tries \in 1..Attempts /\ w.waited + Timeout =< w.tries * Timeout

\* Only a query that has entered is being translated.
Asked(r, w) == w.pc \notin {"idle", "lost"} => visit[r].pc = "in" /\ visit[r].kind = "query"

Fits(r, w) == CachedFits(r, w) /\ TimeFits(w) /\ Asked(r, w)

\* The deadline of an entry is that of the last use.
UsesRenew == \A k \in Keys : due[k] = IF lastUse[k] = None THEN None ELSE lastUse[k] + TTL

TrTypes ==
    /\ ask \in [Requests -> Asks] /\ loop \in Requests \cup {None}
    /\ told \subseteq Keys \X Values /\ lastUse \in [Keys -> Nat \cup {None}]

TrInv ==
    /\ IInv /\ TrTypes
    /\ \A r \in Requests : Fits(r, ask[r])
    /\ UsesRenew /\ CacheIsFresh

\* The records a translation goes through: over, translated after the model took n,
\* a hit, a call of the model for a translation or a sentence, a step of a chain.
Over(p) == [NewAsk EXCEPT !.pc = p]
Given(p, v, n) == [NewAsk EXCEPT !.pc = p, !.plan = v, !.waited = n]
Holding(a, k, v) == [a EXCEPT !.pc = "cached", !.key = k, !.plan = v]
Calling(k, t, b, d, n) ==
    [NewAsk EXCEPT !.pc = "calling", !.key = k, !.tries = t, !.began = b, !.due = d, !.waited = n]
Wording(b, d, n) == [NewAsk EXCEPT !.pc = "format", !.began = b, !.due = d, !.waited = n]
Ran(a, i) == [a EXCEPT !.done = i]

LEMMA NewAskTyped == NewAsk \in Asks
<1>1. 0 \in 0..Attempts  BY TranslationConstants
<1>2. QED  BY <1>1 DEF NewAsk, Asks, AskStates

LEMMA OverRecord ==
    ASSUME NEW p \in AskStates
    PROVE  Over(p) \in Asks /\ Over(p).pc = p
<1>1. NewAsk \in Asks  BY NewAskTyped
<1>2. Over(p) \in Asks  BY <1>1, ZenonT(60) DEF Over, Asks
<1>3. Over(p).pc = p  BY <1>1 DEF Over, Asks
<1>4. QED  BY <1>2, <1>3

LEMMA GivenRecord ==
    ASSUME NEW p \in AskStates, NEW v \in Values, NEW n \in Nat
    PROVE  LET w == Given(p, v, n)
           IN  w \in Asks /\ w.pc = p /\ w.plan = v /\ w.waited = n
<1>1. NewAsk \in Asks  BY NewAskTyped
<1>2. Given(p, v, n) \in Asks  BY <1>1, ZenonT(60) DEF Given, Asks
<1>3. LET w == Given(p, v, n) IN w.pc = p /\ w.plan = v /\ w.waited = n  BY <1>1 DEF Given, Asks
<1>4. QED  BY <1>2, <1>3

LEMMA CallRecord ==
    ASSUME NEW k \in Keys, NEW t \in 1..Attempts, NEW b \in Nat, NEW d \in Nat, NEW n \in Nat
    PROVE  LET w == Calling(k, t, b, d, n)
           IN  /\ w \in Asks /\ w.pc = "calling" /\ w.key = k /\ w.tries = t
               /\ w.began = b /\ w.due = d /\ w.waited = n
<1>1. t \in 0..Attempts /\ "calling" \in AskStates /\ NewAsk \in Asks
  BY TranslationConstants, NewAskTyped DEF AskStates
<1>2. Calling(k, t, b, d, n) \in Asks  BY <1>1, ZenonT(60) DEF Asks, Calling
<1>3. LET w == Calling(k, t, b, d, n)
      IN  w.pc = "calling" /\ w.key = k /\ w.tries = t /\ w.began = b /\ w.due = d /\ w.waited = n
  BY <1>1 DEF Asks, Calling
<1>4. QED  BY <1>2, <1>3

LEMMA WordingRecord ==
    ASSUME NEW b \in Nat, NEW d \in Nat, NEW n \in Nat
    PROVE  LET w == Wording(b, d, n)
           IN  w \in Asks /\ w.pc = "format" /\ w.began = b /\ w.due = d /\ w.waited = n
<1>1. "format" \in AskStates /\ NewAsk \in Asks  BY NewAskTyped DEF AskStates
<1>2. Wording(b, d, n) \in Asks  BY <1>1, ZenonT(60) DEF Asks, Wording
<1>3. LET w == Wording(b, d, n) IN w.pc = "format" /\ w.began = b /\ w.due = d /\ w.waited = n
  BY <1>1 DEF Asks, Wording
<1>4. QED  BY <1>2, <1>3

LEMMA HoldingRecord ==
    ASSUME NEW a \in Asks, NEW k \in Keys, NEW v \in Values
    PROVE  LET w == Holding(a, k, v)
           IN  w \in Asks /\ w.pc = "cached" /\ w.key = k /\ w.plan = v /\ w.waited = a.waited
<1>1. "cached" \in AskStates  BY DEF AskStates
<1>2. Holding(a, k, v) \in Asks  BY <1>1, ZenonT(60) DEF Asks, Holding
<1>3. LET w == Holding(a, k, v) IN w.pc = "cached" /\ w.key = k /\ w.plan = v /\ w.waited = a.waited
  BY DEF Asks, Holding
<1>4. QED  BY <1>2, <1>3

LEMMA RanRecord ==
    ASSUME NEW a \in Asks, NEW i \in Nat
    PROVE  LET w == Ran(a, i) IN w \in Asks /\ w.pc = a.pc /\ w.waited = a.waited
<1>1. Ran(a, i) \in Asks  BY ZenonT(60) DEF Asks, Ran
<1>2. Ran(a, i).pc = a.pc /\ Ran(a, i).waited = a.waited  BY DEF Asks, Ran
<1>3. QED  BY <1>1, <1>2

LEMMA Distributes == \A n, t \in Nat : (n + 1) * t = n * t + t /\ n * t \in Nat
OBVIOUS

LEMMA MoreTakeLonger == \A m, n, t \in Nat : m =< n => m * t =< n * t
OBVIOUS

\* What r has waited for the model never exceeds what its calls may take.
LEMMA Waits ==
    ASSUME TrInv, NEW r \in Requests
    PROVE  /\ Waited(r) \in Nat
           /\ ask[r].pc \in {"idle", "cached"} => Waited(r) = 0
           /\ ask[r].pc = "calling" => Waited(r) =< ask[r].tries * Timeout
           /\ ask[r].pc \in {"calling", "call", "chain"} => Waited(r) =< Attempts * Timeout
           /\ ask[r].pc = "format" => Waited(r) =< Attempts * Timeout + Timeout
<1> DEFINE a == ask[r]
           all == Attempts * Timeout
<1>1. a \in Asks /\ TimeFits(a) /\ now \in Nat  BY DEF TrInv, TrTypes, Fits, IInv, TypeOK
<1>2. a.waited \in Nat /\ a.began \in Nat /\ a.due \in Nat /\ a.tries \in Nat  BY <1>1 DEF Asks
<1>3. Timeout \in Nat /\ Attempts \in Nat /\ all \in Nat /\ a.tries * Timeout \in Nat
  BY <1>2, Distributes, TranslationConstants
<1>4. ASSUME a.pc \in OnModel
      PROVE  Waited(r) \in Nat /\ Waited(r) =< a.waited + Timeout
  <2>1. a.began =< now /\ now =< a.due /\ a.due =< a.began + Timeout /\ Waited(r) = a.waited + (now - a.began)
    BY <1>1, <1>4 DEF TimeFits, Waited
  <2>2. QED  BY <1>1, <1>2, <1>3, <2>1
<1>5. a.pc \notin OnModel => Waited(r) = a.waited  BY <1>2 DEF Waited
<1>6. CASE a.pc = "calling"
  <2>1. a.tries \in 1..Attempts /\ a.waited + Timeout =< a.tries * Timeout  BY <1>1, <1>6 DEF TimeFits
  <2>2. a.tries =< Attempts  BY <1>2, <1>3, <2>1
  <2>3. a.tries * Timeout =< all  BY <1>2, <1>3, <2>2, MoreTakeLonger, Zenon
  <2> DEFINE t == a.tries * Timeout
  <2>4. t \in Nat /\ t =< all /\ a.waited + Timeout =< t  BY <1>3, <2>1, <2>3
  <2>5. Waited(r) \in Nat /\ Waited(r) =< a.waited + Timeout  BY <1>4, <1>6 DEF OnModel
  <2> HIDE DEF t, all
  <2>6. Waited(r) =< t /\ Waited(r) =< all  BY <1>2, <1>3, <2>4, <2>5
  <2>7. QED  BY <1>6, <2>5, <2>6 DEF t, all
<1>7. CASE a.pc = "format"
  <2>1. a.waited =< all  BY <1>1, <1>7 DEF TimeFits
  <2>2. Waited(r) \in Nat /\ Waited(r) =< a.waited + Timeout  BY <1>4, <1>7 DEF OnModel
  <2> HIDE DEF all
  <2>3. Waited(r) =< all + Timeout  BY <1>2, <1>3, <2>1, <2>2
  <2>4. QED  BY <1>7, <2>2, <2>3 DEF all
<1>8. CASE a.pc \notin OnModel
  <2>1. Waited(r) = a.waited  BY <1>5, <1>8
  <2>2. a.pc \in {"idle", "cached"} => Waited(r) = 0  BY <1>1, <2>1 DEF TimeFits
  <2>3. a.pc \in {"call", "chain"} => Waited(r) =< all  BY <1>1, <2>1 DEF TimeFits
  <2>4. QED  BY <1>2, <1>8, <2>1, <2>2, <2>3 DEF OnModel
<1>9. QED  BY <1>6, <1>7, <1>8 DEF OnModel

\* One request's translation goes on to w; what it was told may grow, time stands.
LEMMA OneAsks ==
    ASSUME TrInv, NEW r \in Requests, NEW w \in Asks, ask' = [ask EXCEPT ![r] = w],
           CachedFits(r, w)', TimeFits(w), visit[r].pc = "in" /\ visit[r].kind = "query",
           UNCHANGED <<visit, now>>, told \subseteq told',
           \A q \in Requests \ {r} : ask[q].pc = "cached" => loop' = loop
    PROVE  ask' \in [Requests -> Asks] /\ \A q \in Requests : Fits(q, ask[q])'
<1>1. ask' \in [Requests -> Asks]  BY DEF TrInv, TrTypes
<1>2. ask'[r] = w /\ \A q \in Requests \ {r} : ask'[q] = ask[q]  BY DEF TrInv, TrTypes
<1>3. Fits(r, w)'  BY DEF Fits, TimeFits, Asked
<1>4. ASSUME NEW q \in Requests, q # r PROVE Fits(q, ask[q])'
  <2>1. Fits(q, ask[q]) /\ ask'[q] = ask[q]  BY <1>2, <1>4 DEF TrInv
  <2>2. CachedFits(q, ask[q])'  BY <1>4, <2>1 DEF Fits, CachedFits
  <2>3. TimeFits(ask[q])' /\ Asked(q, ask[q])'  BY <2>1 DEF Fits, TimeFits, Asked
  <2>4. QED  BY <2>2, <2>3 DEF Fits
<1>5. ASSUME NEW q \in Requests PROVE Fits(q, ask[q])'
  <2>1. CASE q = r  BY <1>2, <1>3, <2>1 DEF Fits, CachedFits, TimeFits, Asked
  <2>2. CASE q # r  BY <1>4, <2>2
  <2>3. QED  BY <2>1, <2>2
<1>6. QED  BY <1>1, <1>5

\* A question ends, and leaves the others alone.
LEMMA EndStep ==
    ASSUME TrInv, NEW r \in Requests, NEW p \in {"answered", "error"}, End(r, p),
           visit[r].pc = "in" /\ visit[r].kind = "query",
           UNCHANGED <<visit, now>>, told \subseteq told',
           \A q \in Requests \ {r} : ask[q].pc = "cached" => loop' = loop
    PROVE  /\ ask' \in [Requests -> Asks] /\ \A q \in Requests : Fits(q, ask[q])'
           /\ ask'[r].pc # "calling" /\ \A q \in Requests \ {r} : ask'[q] = ask[q]
<1> DEFINE w == Over(p)
<1>1. ask' = [ask EXCEPT ![r] = w]  BY DEF End, Over
<1>2. w \in Asks /\ w.pc = p  BY OverRecord DEF AskStates
<1>3. ask'[r] = w /\ \A q \in Requests \ {r} : ask'[q] = ask[q]  BY <1>1 DEF TrInv, TrTypes
<1> HIDE DEF w
<1>4. CachedFits(r, w)' /\ TimeFits(w)  BY <1>2 DEF CachedFits, TimeFits, OnModel
<1>5. QED  BY <1>1, <1>2, <1>3, <1>4, OneAsks

\* An attempt, while there are any left, comes after as many as have failed.
LEMMA AttemptStep ==
    ASSUME TrInv, NEW r \in Requests, NEW k \in Keys, NEW n \in Nat, Attempt(r, n, k),
           (n = 1 /\ ask[r].pc = "idle") \/ (ask[r].pc = "calling" /\ n = ask[r].tries + 1),
           visit[r].pc = "in" /\ visit[r].kind = "query",
           UNCHANGED <<visit, now, told, loop>>
    PROVE  /\ ask' \in [Requests -> Asks] /\ \A q \in Requests : Fits(q, ask[q])'
           /\ ask'[r].pc = "calling" => ask'[r].key = k
           /\ \A q \in Requests \ {r} : ask'[q] = ask[q]
<1> DEFINE a == ask[r]
<1>0. a \in Asks /\ now \in Nat /\ Fits(r, a) /\ ask \in [Requests -> Asks] /\ a.tries \in Nat
  BY DEF TrInv, TrTypes, IInv, TypeOK, Asks
<1>1. CASE n =< Attempts
  <2> DEFINE d == AttemptDue(n)
             m == Waited(r)
  <2>1. n \in 1..Attempts  BY <1>0, <1>1, TranslationConstants
  <2>2. d \in Nat /\ d = now + Timeout /\ now =< d  BY <1>0, TranslationConstants DEF AttemptDue
  <2>3. m \in Nat /\ m + Timeout =< n * Timeout
    <3>1. CASE n = 1 /\ ask[r].pc = "idle"
      <4>1. m = 0  BY <3>1, Waits
      <4>2. QED  BY <3>1, <4>1, TranslationConstants
    <3>2. CASE ask[r].pc = "calling" /\ n = ask[r].tries + 1
      <4>1. m \in Nat /\ m =< a.tries * Timeout  BY <3>2, Waits
      <4>2. n * Timeout = a.tries * Timeout + Timeout /\ a.tries * Timeout \in Nat
        BY <1>0, <3>2, Distributes, TranslationConstants
      <4> DEFINE t == a.tries * Timeout
                 u == n * Timeout
      <4>3. t \in Nat /\ u = t + Timeout /\ m =< t  BY <4>1, <4>2
      <4> HIDE DEF t, u
      <4>4. m + Timeout =< u  BY <4>1, <4>3, TranslationConstants
      <4>5. QED  BY <4>1, <4>4 DEF u
    <3>3. QED  BY <3>1, <3>2
  <2>4. ask' = [ask EXCEPT ![r] = Calling(k, n, now, d, m)]  BY <1>1 DEF Attempt, Calling
  <2> HIDE DEF d, m
  <2>5. PICK w \in Asks : /\ w = Calling(k, n, now, d, m) /\ w.pc = "calling" /\ w.key = k /\ w.tries = n
                         /\ w.began = now /\ w.due = d /\ w.waited = m
    BY <1>0, <2>1, <2>2, <2>3, CallRecord
  <2>6. CachedFits(r, w)'  BY <2>5 DEF CachedFits
  <2>7. TimeFits(w)
    <3>1. w.began =< now /\ now =< w.due /\ w.due =< w.began + Timeout  BY <1>0, <2>2, <2>5, TranslationConstants
    <3>2. w.key \in Keys /\ w.tries \in 1..Attempts /\ w.waited + Timeout =< w.tries * Timeout
      BY <2>1, <2>3, <2>5
    <3>3. QED  BY <2>5, <3>1, <3>2, Zenon DEF TimeFits
  <2>8. ask' = [ask EXCEPT ![r] = w] /\ ask'[r] = w /\ \A q \in Requests \ {r} : ask'[q] = ask[q]
    BY <1>0, <2>4, <2>5
  <2>9. QED  BY <2>5, <2>6, <2>7, <2>8, OneAsks
<1>2. CASE ~(n =< Attempts)
  <2>1. End(r, "error")  BY <1>2 DEF Attempt
  <2>2. QED  BY <2>1, EndStep
<1>3. QED  BY <1>1, <1>2

\* A question is translated.
LEMMA GivenStep ==
    ASSUME TrInv, NEW r \in Requests, NEW p \in {"call", "chain"}, NEW v \in Values, Proceed(r, p, v),
           ask[r].pc \in {"cached", "calling"}, visit[r].pc = "in" /\ visit[r].kind = "query",
           UNCHANGED <<visit, now>>, told \subseteq told',
           \A q \in Requests \ {r} : ask[q].pc = "cached" => loop' = loop
    PROVE  /\ ask' \in [Requests -> Asks] /\ \A q \in Requests : Fits(q, ask[q])'
           /\ ask'[r].pc # "calling" /\ \A q \in Requests \ {r} : ask'[q] = ask[q]
<1> DEFINE m == Waited(r)
<1>1. m \in Nat /\ m =< Attempts * Timeout
  <2>1. Attempts * Timeout \in Nat  BY Distributes, TranslationConstants
  <2>2. 0 =< Attempts * Timeout  BY <2>1
  <2>3. QED  BY <2>2, Waits
<1>2. ask' = [ask EXCEPT ![r] = Given(p, v, m)]  BY DEF Proceed, Given
<1> HIDE DEF m
<1>3. PICK w \in Asks : w = Given(p, v, m) /\ w.pc = p /\ w.plan = v /\ w.waited = m
  BY <1>1, GivenRecord DEF AskStates
<1>4. ask' = [ask EXCEPT ![r] = w] /\ ask'[r] = w /\ \A q \in Requests \ {r} : ask'[q] = ask[q]
  BY <1>2, <1>3 DEF TrInv, TrTypes
<1>5. CachedFits(r, w)' /\ TimeFits(w)  BY <1>1, <1>3 DEF CachedFits, TimeFits, OnModel
<1>6. QED  BY <1>3, <1>4, <1>5, OneAsks

\* A result is worded, after the model took no longer than all attempts may.
LEMMA FormatStep ==
    ASSUME TrInv, NEW r \in Requests, ask' = [ask EXCEPT ![r] = Format(r)],
           ask[r].pc \in {"call", "chain"}, visit[r].pc = "in" /\ visit[r].kind = "query",
           UNCHANGED <<visit, now, told, loop>>
    PROVE  /\ ask' \in [Requests -> Asks] /\ \A q \in Requests : Fits(q, ask[q])'
           /\ ask'[r].pc # "calling" /\ \A q \in Requests \ {r} : ask'[q] = ask[q]
<1> DEFINE m == Waited(r)
           d == AttemptDue(1)
<1>0. now \in Nat  BY DEF TrInv, IInv, TypeOK
<1>1. m \in Nat /\ m =< Attempts * Timeout  BY Waits
<1>2. d \in Nat /\ d = now + Timeout /\ now =< d  BY <1>0, TranslationConstants DEF AttemptDue
<1>3. ask' = [ask EXCEPT ![r] = Wording(now, d, m)]  BY DEF Format, Wording
<1> HIDE DEF m, d
<1>4. PICK w \in Asks : /\ w = Wording(now, d, m) /\ w.pc = "format"
                       /\ w.began = now /\ w.due = d /\ w.waited = m
  BY <1>0, <1>1, <1>2, WordingRecord
<1>5. ask' = [ask EXCEPT ![r] = w] /\ ask'[r] = w /\ \A q \in Requests \ {r} : ask'[q] = ask[q]
  BY <1>3, <1>4 DEF TrInv, TrTypes
<1>6. CachedFits(r, w)'  BY <1>4 DEF CachedFits
<1>7. TimeFits(w)
  <2>1. w.began =< now /\ now =< w.due /\ w.due =< w.began + Timeout  BY <1>0, <1>2, <1>4, TranslationConstants
  <2>2. w.waited =< Attempts * Timeout  BY <1>1, <1>4
  <2>3. QED  BY <1>4, <2>1, <2>2, Zenon DEF TimeFits
<1>8. QED  BY <1>4, <1>5, <1>6, <1>7, OneAsks

\* A call runs, or a step of a chain; either may end the question.
LEMMA RunStep ==
    ASSUME TrInv, NEW r \in Requests, CallStep(r) \/ ChainStep(r) \/ Formatted(r),
           visit[r].pc = "in" /\ visit[r].kind = "query", UNCHANGED visit
    PROVE  /\ ask' \in [Requests -> Asks] /\ \A q \in Requests : Fits(q, ask[q])'
           /\ ask'[r].pc # "calling" /\ \A q \in Requests \ {r} : ask'[q] = ask[q]
           /\ UNCHANGED <<now, store, moves, got, due, since, loop, told, lastUse>>
<1> DEFINE a == ask[r]
<1>0. /\ a \in Asks /\ Fits(r, a) /\ ask \in [Requests -> Asks]
      /\ UNCHANGED <<now, store, moves, got, due, since, loop, told, lastUse>>
  BY DEF TrInv, TrTypes, CallStep, ChainStep, Formatted
<1>1. ASSUME NEW p \in {"answered", "error"}, End(r, p)
      PROVE  /\ ask' \in [Requests -> Asks] /\ \A q \in Requests : Fits(q, ask[q])'
             /\ ask'[r].pc # "calling" /\ \A q \in Requests \ {r} : ask'[q] = ask[q]
  BY <1>0, <1>1, EndStep
<1>2. ASSUME ask' = [ask EXCEPT ![r] = Format(r)], a.pc \in {"call", "chain"}
      PROVE  /\ ask' \in [Requests -> Asks] /\ \A q \in Requests : Fits(q, ask[q])'
             /\ ask'[r].pc # "calling" /\ \A q \in Requests \ {r} : ask'[q] = ask[q]
  BY <1>0, <1>2, FormatStep
<1>3. ASSUME NEW i \in Nat, ask' = [ask EXCEPT ![r] = Ran(a, i)], a.pc = "chain"
      PROVE  /\ ask' \in [Requests -> Asks] /\ \A q \in Requests : Fits(q, ask[q])'
             /\ ask'[r].pc # "calling" /\ \A q \in Requests \ {r} : ask'[q] = ask[q]
  <2>1. PICK w \in Asks : w = Ran(a, i) /\ w.pc = a.pc /\ w.waited = a.waited  BY <1>0, RanRecord
  <2>2. ask' = [ask EXCEPT ![r] = w] /\ ask'[r] = w /\ \A q \in Requests \ {r} : ask'[q] = ask[q]
    BY <1>0, <1>3, <2>1
  <2>3. CachedFits(r, w)'  BY <1>3, <2>1 DEF CachedFits
  <2>4. TimeFits(w)  BY <1>0, <1>3, <2>1 DEF Fits, TimeFits, OnModel
  <2>5. QED  BY <1>0, <1>3, <2>1, <2>2, <2>3, <2>4, OneAsks
<1>4. CASE CallStep(r)  BY <1>0, <1>1, <1>2, <1>4 DEF CallStep
<1>5. CASE ChainStep(r)
  <2> DEFINE i == a.done + 1
  <2>1. i \in Nat /\ a.pc = "chain"  BY <1>0, <1>5 DEF Asks, ChainStep
  <2>2. \/ End(r, "error")
        \/ ask' = [ask EXCEPT ![r] = Format(r)]
        \/ ask' = [ask EXCEPT ![r] = Ran(a, i)]
    BY <1>5 DEF ChainStep, Ran
  <2> HIDE DEF i
  <2>3. QED  BY <1>0, <1>1, <1>2, <1>3, <2>1, <2>2
<1>6. CASE Formatted(r)  BY <1>0, <1>1, <1>6 DEF Formatted
<1>7. QED  BY <1>4, <1>5, <1>6

\* An entry that stays keeps its value, so what is cached stays fresh.
LEMMA StaysFresh ==
    ASSUME CacheIsFresh, told \subseteq told',
           \A k \in Keys : store'[k] # None => store[k] # None /\ store'[k].value = store[k].value
    PROVE  CacheIsFresh'
BY DEF CacheIsFresh, Live

LEMMA SetFresh ==
    ASSUME IInv, CacheIsFresh, NEW k \in Keys, NEW v \in Values, Single(v), Set(k, v),
           told \subseteq told', <<k, v>> \in told'
    PROVE  CacheIsFresh'
<1> DEFINE e == [value |-> v, until |-> Deadline, at |-> MovedToEnd(k)]
           s == [store EXCEPT ![k] = e]
<1>1. store' = Trim(s)  BY DEF Set
<1>2. s[k].value = v /\ \A j \in Keys \ {k} : s[j] = store[j]  BY DEF IInv, TypeOK
<1> HIDE DEF s
<1>3. s \in [Keys -> {s[j] : j \in Keys}]  BY DEF s, IInv, TypeOK
<1>4. \A j \in Keys : store'[j] # None => store'[j] = s[j]  BY <1>1, <1>3 DEF Trim
<1>5. QED
  <2> SUFFICES ASSUME NEW j \in Keys, store'[j] # None
               PROVE  <<j, store'[j].value>> \in told' /\ Single(store'[j].value)
    BY DEF CacheIsFresh, Live
  <2>2. CASE j = k  BY <1>2, <1>4, <2>2
  <2>3. CASE j # k  BY <1>2, <1>4, <2>3 DEF CacheIsFresh, Live
  <2>4. QED  BY <2>2, <2>3

\* The answer v to r's question: a call is cached and renews its use; what is no
\* single call never is.
LEMMA TakeStep ==
    ASSUME TrInv, NEW r \in Requests, NEW k \in Keys, NEW v \in Values, Take(r, k, v),
           ask[r].pc \in {"cached", "calling"},
           told \subseteq told', told' \subseteq Keys \X Values, Single(v) => <<k, v>> \in told',
           loop' \in Requests \cup {None}, \A q \in Requests \ {r} : ask[q].pc = "cached" => loop' = loop,
           visit[r].pc = "in" /\ visit[r].kind = "query", UNCHANGED visit
    PROVE  /\ TrInv' /\ [Next]_vars
           /\ ask'[r].pc # "calling" /\ \A q \in Requests \ {r} : ask'[q] = ask[q]
<1>1. \/ Single(v) /\ Set(k, v) /\ UseNow(k)
      \/ UNCHANGED <<now, store, moves, got, due, since, lastUse>>
  BY DEF Take, Cache
<1>2. UNCHANGED now /\ [Next]_vars  BY <1>1 DEF Set, Next, vars
<1>3. End(r, "error") \/ \E p \in {"call", "chain"} : Proceed(r, p, v)  BY DEF Take
<1>4. /\ ask' \in [Requests -> Asks] /\ \A q \in Requests : Fits(q, ask[q])'
      /\ ask'[r].pc # "calling" /\ \A q \in Requests \ {r} : ask'[q] = ask[q]
  BY <1>2, <1>3, EndStep, GivenStep
<1>5. IInv'  BY <1>2, InvNext DEF TrInv
<1>6. CASE Single(v) /\ Set(k, v) /\ UseNow(k)
  <2>1. CacheIsFresh'  BY <1>6, SetFresh DEF TrInv
  <2>2. due' = [due EXCEPT ![k] = now + TTL] /\ lastUse' = [lastUse EXCEPT ![k] = now]
    BY <1>6 DEF Set, UseNow
  <2>3. now \in Nat /\ now # None  BY CacheConstants DEF TrInv, IInv, TypeOK
  <2>4. lastUse' \in [Keys -> Nat \cup {None}]  BY <2>2, <2>3 DEF TrInv, TrTypes
  <2>5. UsesRenew'  BY <2>2, <2>3 DEF TrInv, TrTypes, IInv, TypeOK, UsesRenew
  <2>6. QED  BY <1>4, <1>2, <1>5, <2>1, <2>4, <2>5 DEF TrInv, TrTypes
<1>7. CASE UNCHANGED <<now, store, moves, got, due, since, lastUse>>
  <2>1. CacheIsFresh'  BY <1>7, StaysFresh DEF TrInv
  <2>2. UsesRenew'  BY <1>7 DEF TrInv, UsesRenew
  <2>3. QED  BY <1>2, <1>4, <1>5, <1>7, <2>1, <2>2 DEF TrInv, TrTypes
<1>8. QED  BY <1>1, <1>2, <1>4, <1>6, <1>7

\* The model is asked only for what nobody used lately.
Spared ==
    \A r \in Requests : ask[r].pc # "calling" /\ ask'[r].pc = "calling" =>
       LET k == ask'[r].key
       IN  \/ lastUse[k] = None
           \/ now > lastUse[k] + TTL
           \/ Cardinality(since[k]) >= Max

LEMMA SparedBy ==
    ASSUME TrInv, NEW k \in Keys, Miss(k) \/ Expire(k)
    PROVE  lastUse[k] = None \/ now > lastUse[k] + TTL \/ Cardinality(since[k]) >= Max
<1>1. /\ now \in Nat /\ TTL \in Nat /\ Max \in Nat /\ lastUse[k] \in Nat \cup {None}
      /\ due[k] = IF lastUse[k] = None THEN None ELSE lastUse[k] + TTL
      /\ None \notin Nat
  BY CacheConstants DEF TrInv, IInv, TypeOK, TrTypes, UsesRenew
<1>2. since[k] \subseteq Keys  BY DEF TrInv, IInv, TypeOK
<1>3. Cardinality(since[k]) \in Nat  BY <1>2, FS_Subset, FS_CardinalityType, CacheConstants
<1>4. SUFFICES ASSUME lastUse[k] # None, now =< lastUse[k] + TTL, Cardinality(since[k]) < Max
               PROVE  FALSE
  BY <1>1, <1>3
<1>5. due[k] # None /\ now =< due[k] /\ due[k] \in Nat  BY <1>1, <1>4
<1>6. store[k] # None /\ store[k].until = due[k]
  BY <1>4, <1>5 DEF TrInv, IInv, RecentlyUsedKept
<1>7. QED  BY <1>1, <1>5, <1>6 DEF Miss, Expire, Expired

LEMMA LookupStep ==
    ASSUME TrInv, NEW r \in Requests, NEW k \in Keys, Lookup(r, k),
           visit[r].pc = "in" /\ visit[r].kind = "query", UNCHANGED visit
    PROVE  TrInv' /\ [Next]_vars /\ Spared
<1>0. /\ loop = None /\ UNCHANGED <<told, lastUse>> /\ ask[r].pc = "idle"
      /\ ask \in [Requests -> Asks] /\ None \notin Requests
  BY GateConstants DEF Lookup, TrInv, TrTypes
<1>1. CASE Hit(k) /\ ask' = [ask EXCEPT ![r].pc = "cached", ![r].key = k, ![r].plan = got'] /\ KeepLoop(r)
  <2> DEFINE v == store[k].value
  <2>1. [Next]_vars /\ UNCHANGED <<now, due>> /\ got' = v /\ store[k] # None /\ k \in Live(store)
        /\ store' = [store EXCEPT ![k].at = moves + 1] /\ loop' = r
    BY <1>1 DEF Next, vars, Hit, MovedToEnd, Live, KeepLoop
  <2>2. store[k] \in Entries /\ store \in [Keys -> Entries \cup {None}]
    BY <2>1 DEF TrInv, IInv, TypeOK
  <2>3. v \in Values /\ Single(v) /\ <<k, v>> \in told
    BY <2>1, <2>2 DEF TrInv, CacheIsFresh, Entries
  <2>4. PICK w \in Asks : /\ w = Holding(ask[r], k, v)
                         /\ w.pc = "cached" /\ w.key = k /\ w.plan = v /\ w.waited = ask[r].waited
    <3> HIDE DEF v
    <3>1. ask[r] \in Asks  BY <1>0
    <3>2. QED  BY <2>3, <3>1, HoldingRecord
  <2>5. ask' = [ask EXCEPT ![r] = w]
    <3>1. ask' = [ask EXCEPT ![r] = [ask[r] EXCEPT !.pc = "cached", !.key = k, !.plan = v]]
      BY <1>1, <2>1
    <3>2. QED  BY <2>4, <3>1 DEF Holding
  <2>6. CachedFits(r, w)' /\ TimeFits(w)
    <3>1. ask[r].waited = 0  BY <1>0 DEF TrInv, Fits, TimeFits
    <3>2. QED  BY <1>0, <2>1, <2>3, <2>4, <3>1 DEF CachedFits, TimeFits, OnModel
  <2>7. \A q \in Requests \ {r} : ask[q].pc # "cached"
    BY <1>0 DEF TrInv, Fits, CachedFits
  <2>8. ask' \in [Requests -> Asks] /\ \A q \in Requests : Fits(q, ask[q])'
    BY <1>0, <2>1, <2>5, <2>6, <2>7, OneAsks
  <2>9. IInv'  BY <2>1, InvNext DEF TrInv
  <2>10. CacheIsFresh'
    <3>1. store'[k] = [store[k] EXCEPT !.at = moves + 1] /\ \A j \in Keys \ {k} : store'[j] = store[j]
      BY <2>1, <2>2
    <3>2. store'[k].value = store[k].value  BY <2>2, <3>1 DEF Entries
    <3>3. \A j \in Keys : store'[j] # None => store[j] # None /\ store'[j].value = store[j].value
      BY <2>1, <3>1, <3>2
    <3>4. QED  BY <1>0, <3>3, StaysFresh DEF TrInv
  <2>11. UsesRenew'  BY <1>0, <2>1 DEF TrInv, UsesRenew
  <2>12. TrInv'  BY <1>0, <2>1, <2>8, <2>9, <2>10, <2>11 DEF TrInv, TrTypes
  <2>13. \A q \in Requests : ask'[q].pc = "calling" => ask'[q] = ask[q]  BY <1>0, <2>4, <2>5
  <2>14. Spared  BY <2>13 DEF Spared
  <2>15. QED  BY <2>1, <2>12, <2>14
<1>2. CASE (Miss(k) \/ Expire(k)) /\ Attempt(r, 1, k) /\ UNCHANGED loop
  <2>1. [Next]_vars /\ UNCHANGED <<now, due>> /\ (store' = store \/ store' = [store EXCEPT ![k] = None])
    BY <1>2 DEF Next, vars, Miss, Expire
  <2>2. /\ ask' \in [Requests -> Asks] /\ \A q \in Requests : Fits(q, ask[q])'
        /\ ask'[r].pc = "calling" => ask'[r].key = k
        /\ \A q \in Requests \ {r} : ask'[q] = ask[q]
    BY <1>0, <1>2, <2>1, AttemptStep
  <2>3. IInv'  BY <2>1, InvNext DEF TrInv
  <2>4. \A j \in Keys : store'[j] # None => store[j] # None /\ store'[j].value = store[j].value
    BY <2>1 DEF TrInv, IInv, TypeOK
  <2>5. CacheIsFresh'  BY <1>0, <2>4, StaysFresh DEF TrInv
  <2>6. UsesRenew'  BY <1>0, <2>1 DEF TrInv, UsesRenew
  <2>7. TrInv'  BY <1>0, <1>2, <2>1, <2>2, <2>3, <2>5, <2>6 DEF TrInv, TrTypes
  <2>8. lastUse[k] = None \/ now > lastUse[k] + TTL \/ Cardinality(since[k]) >= Max
    BY <1>2, SparedBy
  <2>9. Spared  BY <2>2, <2>8 DEF Spared
  <2>10. QED  BY <2>1, <2>7, <2>9
<1>3. QED  BY <1>1, <1>2 DEF Lookup

\* A step of one request that ends in no call spares the model.
LEMMA NoCall ==
    ASSUME NEW r \in Requests, ask'[r].pc # "calling", \A q \in Requests \ {r} : ask'[q] = ask[q]
    PROVE  Spared
BY DEF Spared

LEMMA TranslateStep ==
    ASSUME TrInv, NEW r \in Requests, Translate(r)
    PROVE  TrInv' /\ [Next]_vars /\ Spared
<1>0. /\ visit[r].pc = "in" /\ visit[r].kind = "query" /\ UNCHANGED visit
      /\ ask \in [Requests -> Asks] /\ None \notin Requests /\ Fits(r, ask[r])
      /\ \A q \in Requests : ask[q].pc = "cached" => loop = q
  BY GateConstants DEF Translate, accounts, TrInv, TrTypes, Fits, CachedFits
<1>1. ASSUME NEW k \in Keys, Lookup(r, k) PROVE TrInv' /\ [Next]_vars /\ Spared
  BY <1>0, <1>1, LookupStep
<1>2. CASE UseCached(r)
  <2> DEFINE a == ask[r]
  <2>1. /\ a.key \in Keys /\ a.plan \in Values /\ <<a.key, a.plan>> \in told /\ loop = r /\ a.pc = "cached"
    BY <1>0, <1>2 DEF UseCached, Fits, CachedFits
  <2>2. Take(r, a.key, a.plan) /\ loop' = None /\ told' = told  BY <1>2 DEF UseCached
  <2>3. \A q \in Requests \ {r} : ask[q].pc # "cached"  BY <1>0, <2>1
  <2>4. told \subseteq Keys \X Values  BY DEF TrInv, TrTypes
  <2>5. /\ TrInv' /\ [Next]_vars
        /\ ask'[r].pc # "calling" /\ \A q \in Requests \ {r} : ask'[q] = ask[q]
    BY <1>0, <2>1, <2>2, <2>3, <2>4, TakeStep
  <2>6. QED  BY <2>5, NoCall
<1>3. ASSUME NEW v \in Values, ModelAnswers(r, v) PROVE TrInv' /\ [Next]_vars /\ Spared
  <2> DEFINE k == ask[r].key
  <2>1. /\ k \in Keys /\ Take(r, k, v) /\ told' = told \cup {<<k, v>>} /\ loop = None /\ loop' = loop
        /\ ask[r].pc = "calling"
    BY <1>0, <1>3 DEF ModelAnswers, Fits, TimeFits
  <2>2. told' \subseteq Keys \X Values  BY <2>1 DEF TrInv, TrTypes
  <2> HIDE DEF k
  <2>3. /\ TrInv' /\ [Next]_vars
        /\ ask'[r].pc # "calling" /\ \A q \in Requests \ {r} : ask'[q] = ask[q]
    BY <1>0, <2>1, <2>2, TakeStep
  <2>4. QED  BY <2>3, NoCall
<1>4. ASSUME UNCHANGED <<now, store, moves, got, due, since, loop, told, lastUse>>,
             ask' \in [Requests -> Asks] /\ \A q \in Requests : Fits(q, ask[q])'
      PROVE  TrInv' /\ [Next]_vars
  <2>1. UNCHANGED vars  BY <1>4 DEF vars
  <2>2. IInv'  BY <2>1, InvNext DEF TrInv
  <2>3. QED  BY <1>4, <2>1, <2>2 DEF TrInv, TrTypes, UsesRenew, CacheIsFresh, Live
<1>5. CASE AttemptFails(r)
  <2>1. /\ ask[r].pc = "calling" /\ Attempt(r, ask[r].tries + 1, ask[r].key)
        /\ UNCHANGED <<now, store, moves, got, due, since, loop, told, lastUse>>
    BY <1>5 DEF AttemptFails
  <2>2. ask[r].key \in Keys /\ ask[r].tries + 1 \in Nat  BY <1>0, <2>1 DEF Fits, TimeFits, Asks
  <2>3. /\ ask' \in [Requests -> Asks] /\ \A q \in Requests : Fits(q, ask[q])'
        /\ \A q \in Requests \ {r} : ask'[q] = ask[q]
    BY <1>0, <2>1, <2>2, AttemptStep
  <2>4. Spared  BY <2>1, <2>3 DEF Spared
  <2>5. QED  BY <1>4, <2>1, <2>3, <2>4
<1>6. CASE CallStep(r) \/ ChainStep(r) \/ Formatted(r)
  <2>1. /\ ask' \in [Requests -> Asks] /\ \A q \in Requests : Fits(q, ask[q])'
        /\ ask'[r].pc # "calling" /\ \A q \in Requests \ {r} : ask'[q] = ask[q]
        /\ UNCHANGED <<now, store, moves, got, due, since, loop, told, lastUse>>
    BY <1>0, <1>6, RunStep
  <2>2. QED  BY <1>4, <2>1, NoCall
<1>7. QED  BY <1>1, <1>2, <1>3, <1>5, <1>6 DEF Translate

(***************************************************************************)
(* The steps around a translation.                                         *)
(***************************************************************************)

\* What else happens leaves the queries that have entered alone.
Apart == \A q \in Requests : visit[q].pc = "in" /\ visit[q].kind = "query" => visit'[q] = visit[q]

LEMMA QuietStep ==
    ASSUME TrInv, Apart, UNCHANGED <<now, translation>>
    PROVE  TrInv' /\ [Next]_vars /\ Spared
<1>1. UNCHANGED <<vars, ask, loop, told, lastUse>>  BY DEF translation, vars
<1>2. IInv'  BY <1>1, InvNext DEF TrInv
<1>3. ASSUME NEW q \in Requests PROVE Fits(q, ask[q])'
  <2>1. Fits(q, ask[q])  BY DEF TrInv
  <2>2. CachedFits(q, ask[q])' /\ TimeFits(ask[q])'
    BY <1>1, <2>1 DEF Fits, CachedFits, TimeFits, vars
  <2>3. Asked(q, ask[q])'  BY <1>1, <2>1 DEF Fits, Asked, Apart
  <2>4. QED  BY <2>2, <2>3 DEF Fits
<1>4. TrTypes' /\ UsesRenew' /\ CacheIsFresh'
  BY <1>1 DEF TrInv, TrTypes, UsesRenew, CacheIsFresh, Live, vars
<1>5. Spared  BY <1>1 DEF Spared
<1>6. QED  BY <1>1, <1>2, <1>3, <1>4, <1>5 DEF TrInv

\* Nothing survives the clearing of the cache.
LEMMA EmptyStep ==
    ASSUME TrInv, Clear, told' = {}, lastUse' = [k \in Keys |-> None],
           ask' \in [Requests -> Asks], loop' \in Requests \cup {None},
           \A q \in Requests : /\ ask'[q].pc # "cached" /\ Asked(q, ask[q])'
                               /\ ask'[q] = ask[q] \/ ask'[q].pc = "lost"
    PROVE  TrInv' /\ [Next]_vars /\ Spared
<1>1. [Next]_vars /\ UNCHANGED now /\ store' = [k \in Keys |-> None] /\ due' = [k \in Keys |-> None]
  BY DEF Next, Clear
<1>2. IInv'  BY <1>1, InvNext DEF TrInv
<1>3. ASSUME NEW q \in Requests PROVE Fits(q, ask[q])'
  <2>1. Fits(q, ask[q])  BY DEF TrInv
  <2>2. CachedFits(q, ask[q])'  BY DEF CachedFits
  <2>3. TimeFits(ask[q])'  BY <1>1, <2>1 DEF Fits, TimeFits, OnModel
  <2>4. QED  BY <2>2, <2>3 DEF Fits
<1>4. TrTypes'  BY DEF TrTypes
<1>5. UsesRenew' /\ CacheIsFresh'  BY <1>1 DEF UsesRenew, CacheIsFresh, Live
<1>6. Spared  BY DEF Spared
<1>7. QED  BY <1>1, <1>2, <1>3, <1>4, <1>5, <1>6 DEF TrInv

LEMMA ClearStep ==
    ASSUME TrInv, Apart, ClearCache, UNCHANGED ask
    PROVE  TrInv' /\ [Next]_vars /\ Spared
<1>1. loop = None /\ loop' = None /\ None \notin Requests  BY GateConstants DEF ClearCache
<1>2. ASSUME NEW q \in Requests PROVE ask'[q].pc # "cached" /\ Asked(q, ask[q])'
  <2>1. Fits(q, ask[q])  BY DEF TrInv
  <2>2. QED  BY <1>1, <2>1 DEF Fits, CachedFits, Asked, Apart
<1>3. QED  BY <1>1, <1>2, EmptyStep DEF ClearCache, TrInv, TrTypes

\* Time does not pass the deadline of a call of the model.
LEMMA WaitStep ==
    ASSUME TrInv, Prompt, Tick, UNCHANGED <<ask, loop, told, lastUse, visit>>
    PROVE  TrInv' /\ [Next]_vars /\ Spared
<1>1. [Next]_vars /\ now' = now + 1 /\ UNCHANGED <<store, due>> /\ now \in Nat
  BY DEF Next, Tick, TrInv, IInv, TypeOK
<1>2. IInv'  BY <1>1, InvNext DEF TrInv
<1>3. ASSUME NEW q \in Requests PROVE Fits(q, ask[q])'
  <2>1. Fits(q, ask[q]) /\ ask[q] \in Asks  BY DEF TrInv, TrTypes
  <2>2. ask[q].pc \in OnModel => ask[q].began =< now + 1 /\ now + 1 =< ask[q].due
    BY <1>1, <2>1 DEF Prompt, Asks, Fits, TimeFits
  <2>3. TimeFits(ask[q])'  BY <1>1, <2>1, <2>2 DEF Fits, TimeFits
  <2>4. CachedFits(q, ask[q])' /\ Asked(q, ask[q])'
    BY <2>1 DEF Fits, CachedFits, Asked
  <2>5. QED  BY <2>3, <2>4 DEF Fits
<1>4. TrTypes' /\ UsesRenew' /\ CacheIsFresh'
  BY <1>1 DEF TrInv, TrTypes, UsesRenew, CacheIsFresh, Live
<1>5. Spared  BY DEF Spared
<1>6. QED  BY <1>1, <1>2, <1>3, <1>4, <1>5 DEF TrInv

\* A crash loses every translation and all that is cached.
LEMMA CrashStep ==
    ASSUME TrInv, Crash
    PROVE  TrInv' /\ [Next]_vars /\ Spared
<1> DEFINE lost == [NewAsk EXCEPT !.pc = "lost"]
<1>1. lost \in Asks /\ lost.pc = "lost"
  <2>1. NewAsk \in Asks /\ "lost" \in AskStates  BY NewAskTyped DEF AskStates
  <2>2. lost \in Asks  BY <2>1, ZenonT(60) DEF Asks
  <2>3. lost.pc = "lost"  BY <2>1 DEF Asks
  <2>4. QED  BY <2>2, <2>3
<1>2. ask' = [r \in Requests |-> IF visit[r].pc \in Settled THEN ask[r] ELSE lost]  BY DEF Crash
<1> HIDE DEF lost
<1>3. ask' \in [Requests -> Asks]  BY <1>1, <1>2 DEF TrInv, TrTypes
<1>4. ASSUME NEW q \in Requests
      PROVE  /\ ask'[q].pc # "cached" /\ Asked(q, ask[q])'
             /\ ask'[q] = ask[q] \/ ask'[q].pc = "lost"
  <2>1. CASE visit[q].pc \in Settled
    <3>1. ask'[q] = ask[q] /\ visit[q].pc # "in"  BY <1>2, <2>1 DEF Settled, A!Refused
    <3>2. ask[q].pc \in {"idle", "lost"}  BY <3>1 DEF TrInv, Fits, Asked
    <3>3. QED  BY <3>1, <3>2 DEF Asked
  <2>2. CASE visit[q].pc \notin Settled
    <3>1. ask'[q].pc = "lost"  BY <1>1, <1>2, <2>2
    <3>2. QED  BY <3>1 DEF Asked
  <2>3. QED  BY <2>1, <2>2
<1>5. loop' \in Requests \cup {None} /\ Clear /\ told' = {} /\ lastUse' = [k \in Keys |-> None]
  BY DEF Crash
<1>6. QED  BY <1>3, <1>4, <1>5, EmptyStep

(***************************************************************************)
(* The inductive invariant of Gate, and what follows from it.              *)
(***************************************************************************)
GateInv ==
    /\ AccountsType /\ BootInv /\ TrInv
    /\ hits \in [Clients -> SUBSET Attempted] /\ tries \in [Emails \X Clients -> SUBSET Attempted]
    /\ crashes \in 0..MaxCrashes

LEMMA GateTyped == GateInv => GateTypeOK
<1> SUFFICES ASSUME GateInv PROVE GateTypeOK  OBVIOUS
<1>1. TypeOK /\ A!AccountsTypeOK  BY DEF GateInv, TrInv, IInv, AccountsType
<1>2. TranslationTypeOK
  BY DEF GateInv, TrInv, TrTypes, Asks, TranslationTypeOK
<1>3. QED  BY <1>1, <1>2 DEF GateInv, BootInv, GateTypeOK

LEMMA CountedType ==
    ASSUME NEW s \in SUBSET Attempted, NEW max, NEW window, NEW a \in Attempted
    PROVE  Counted(s, max, window, a) \in SUBSET Attempted
BY DEF Counted, Recent

LEMMA ClientType ==
    ASSUME GateInv, NEW r \in Requests, Client(r)
    PROVE  GateInv'
<1>1. now \in Nat /\ crashes \in Nat  BY GateConstants DEF GateInv, TrInv, IInv, TypeOK
<1>2. PICK w \in A!Visits : visit' = [visit EXCEPT ![r] = w] /\ Arrived(r, w) /\ Metered(r, w)
  BY <1>1, ClientStep DEF GateInv
<1>3. visit[r].pc = "new" /\ UNCHANGED <<now, translation, db, disk, jar, started>>
  BY <1>1, ClientStep DEF GateInv
<1>4. AccountsType'
  <2>1. /\ w.pc \in {"hash", "find"} => w.email \in Emails
        /\ w.pc = "hash" => w.password \in Passwords
        /\ w.pc # "open"
    BY <1>2 DEF Arrived
  <2>2. /\ db' \in A!Tables /\ disk' \in A!Tables /\ jar' \subseteq [id : A!Owners, issued : Nat]
    BY <1>3 DEF GateInv, AccountsType, A!AccountsTypeOK
  <2>3. QED  BY <1>2, <2>1, <2>2, VisitStep DEF GateInv
<1>5. [by |-> r, at |-> now] \in Attempted  BY <1>1 DEF Attempted
<1>6. hits' \in [Clients -> SUBSET Attempted]
  <2> DEFINE c == Counted(hits[w.client], RateMax, RateWindow, [by |-> r, at |-> now])
  <2>1. w.client \in Clients /\ hits' = [hits EXCEPT ![w.client] = c]  BY <1>2 DEF Arrived, Metered
  <2>2. c \in SUBSET Attempted  BY <1>5, <2>1, CountedType DEF GateInv
  <2> HIDE DEF c
  <2>3. QED  BY <2>1, <2>2 DEF GateInv
<1>7. tries' \in [Emails \X Clients -> SUBSET Attempted]
  <2> DEFINE k == <<w.email, w.client>>
             c == Counted(tries[k], AuthMax, AuthWindow, [by |-> r, at |-> now])
  <2>1. CASE tries' = tries  BY <2>1 DEF GateInv
  <2>2. CASE w.kind \in {"register", "login"} /\ tries' = [tries EXCEPT ![k] = c]
    <3>1. k \in Emails \X Clients  BY <1>2, <2>2 DEF Arrived
    <3>2. c \in SUBSET Attempted  BY <1>5, <3>1, CountedType DEF GateInv
    <3> HIDE DEF c, k
    <3>3. QED  BY <2>2, <3>1, <3>2 DEF GateInv
  <2>3. QED  BY <1>2, <2>1, <2>2 DEF Metered
<1>8. BootInv' /\ crashes' = crashes  BY <1>3, BootKept DEF GateInv, started
<1>9. Apart  BY <1>2, <1>3 DEF Apart, GateInv, AccountsType, A!AccountsTypeOK
<1>10. TrInv'  BY <1>3, <1>9, QuietStep DEF GateInv
<1>11. QED  BY <1>4, <1>6, <1>7, <1>8, <1>10 DEF GateInv

LEMMA ClientApart ==
    ASSUME GateInv, NEW r \in Requests, Client(r) \/ Serve(r)
    PROVE  Apart /\ UNCHANGED <<now, translation>>
<1>1. now \in Nat /\ crashes \in Nat  BY GateConstants DEF GateInv, TrInv, IInv, TypeOK
<1>2. /\ visit[r].pc # "in" /\ UNCHANGED <<now, translation>>
      /\ \E w : visit' = [visit EXCEPT ![r] = w]
  <2>1. CASE Client(r)  BY <1>1, <2>1, ClientStep DEF GateInv
  <2>2. CASE Serve(r)
    <3>1. visit[r].pc \in A!Waiting /\ UNCHANGED <<now, translation>>
      BY <1>1, <2>2, ServeStep DEF GateInv
    <3>2. \E w : visit' = [visit EXCEPT ![r] = w]  BY <1>1, <2>2, ServeStep DEF GateInv
    <3>3. QED  BY <3>1, <3>2 DEF A!Waiting
  <2>3. QED  BY <2>1, <2>2
<1>3. QED  BY <1>2 DEF Apart, GateInv, AccountsType, A!AccountsTypeOK

\* A step of the accounts keeps what is not theirs.
LEMMA AccountsOnly ==
    ASSUME GateInv, AccountsType', UNCHANGED <<limits, started>>, TrInv'
    PROVE  GateInv'
BY BootKept DEF GateInv, limits, started

LEMMA ClearByStep ==
    ASSUME GateInv, NEW r \in Requests, ClearBy(r)
    PROVE  GateInv' /\ [Next]_vars /\ Spared
<1>1. /\ visit[r].kind = "clear" /\ UNCHANGED <<db, disk, jar, limits, started>>
      /\ \/ A!Go(r, "unauthorized") /\ UNCHANGED <<now, translation>>
         \/ A!Go(r, "done") /\ ClearCache /\ UNCHANGED ask
  BY DEF ClearBy
<1>2. PICK p \in {"unauthorized", "done"} : visit' = [visit EXCEPT ![r] = [visit[r] EXCEPT !.pc = p]]
  BY <1>1 DEF A!Go
<1>3. PICK w \in A!Visits : w = [visit[r] EXCEPT !.pc = p] /\ w.pc = p
  <2>1. visit[r] \in A!Visits /\ p \in A!VisitStates
    BY DEF GateInv, AccountsType, A!AccountsTypeOK, A!VisitStates, A!Refused
  <2>2. [visit[r] EXCEPT !.pc = p] \in A!Visits  BY <2>1, ZenonT(60) DEF A!Visits
  <2>3. [visit[r] EXCEPT !.pc = p].pc = p  BY <2>1 DEF A!Visits
  <2>4. QED  BY <2>2, <2>3
<1>4. AccountsType'
  BY <1>1, <1>2, <1>3, VisitStep DEF GateInv, AccountsType, A!AccountsTypeOK
<1>5. Apart  BY <1>1, <1>2 DEF Apart, GateInv, AccountsType, A!AccountsTypeOK
<1>6. TrInv' /\ [Next]_vars /\ Spared
  BY <1>1, <1>5, QuietStep, ClearStep DEF GateInv
<1>7. QED  BY <1>1, <1>4, <1>6, AccountsOnly

LEMMA CrashType ==
    ASSUME GateInv, Crash
    PROVE  GateInv' /\ [Next]_vars /\ Spared
<1>1. TrInv' /\ [Next]_vars /\ Spared /\ BootInv'  BY CrashStep, BootSteps DEF GateInv
<1>2. ASSUME NEW r \in Requests
      PROVE  visit'[r] \in A!Visits /\ (visit'[r] = visit[r] \/ visit'[r].pc = "lost")
  <2>1. visit'[r] \in {visit[r], [visit[r] EXCEPT !.pc = "lost"]}  BY DEF Crash
  <2>2. visit[r] \in A!Visits /\ "lost" \in A!VisitStates
    BY DEF GateInv, AccountsType, A!AccountsTypeOK, A!VisitStates
  <2>3. [visit[r] EXCEPT !.pc = "lost"] \in A!Visits  BY <2>2, ZenonT(60) DEF A!Visits
  <2>4. [visit[r] EXCEPT !.pc = "lost"].pc = "lost"  BY <2>2 DEF A!Visits
  <2>5. QED  BY <2>1, <2>2, <2>3, <2>4
<1>3. visit' \in [Requests -> A!Visits]
  <2>1. visit' = [r \in Requests |-> visit'[r]]  BY DEF Crash
  <2>2. QED  BY <1>2, <2>1
<1>4. AccountsType'
  <2>1. A!AccountsTypeOK'
    BY <1>3 DEF Crash, GateInv, AccountsType, A!AccountsTypeOK
  <2>2. QED  BY <1>2, <2>1 DEF GateInv, AccountsType
<1>5. hits' \in [Clients -> SUBSET Attempted] /\ tries' \in [Emails \X Clients -> SUBSET Attempted]
  BY DEF Crash
<1>6. crashes' \in 0..MaxCrashes  BY GateConstants DEF Crash, GateInv
<1>7. QED  BY <1>1, <1>4, <1>5, <1>6 DEF GateInv

LEMMA StartType ==
    ASSUME GateInv, StartUp
    PROVE  GateInv' /\ [Next]_vars /\ Spared
<1>1. UNCHANGED <<now, translation, limits, crashes>> /\ BootInv' /\ visit' = visit
  BY BootSteps DEF StartUp, GateInv, Start, NextMigration, RunStatement, Record, Ready, A!CleanUp
<1>2. TrInv' /\ [Next]_vars /\ Spared  BY <1>1, QuietStep DEF GateInv, Apart
<1>3. db' \in A!Tables /\ disk' \in A!Tables /\ jar' = jar
  <2>1. CASE UNCHANGED <<db, disk, jar>>  BY <2>1 DEF GateInv, AccountsType, A!AccountsTypeOK
  <2>2. CASE A!CleanUp
    BY <2>2 DEF A!CleanUp, GateInv, AccountsType, A!AccountsTypeOK, A!Tables
  <2>3. QED  BY <2>1, <2>2 DEF StartUp, Start, NextMigration, RunStatement, Record, Ready
<1>4. AccountsType'  BY <1>1, <1>3 DEF GateInv, AccountsType, A!AccountsTypeOK
<1>5. QED  BY <1>1, <1>2, <1>4 DEF GateInv, limits

LEMMA GateInit0 == GateInit => GateInv
<1> SUFFICES ASSUME GateInit PROVE GateInv  OBVIOUS
<1>1. AccountsType
  <2>1. A!NewVisit \in A!Visits  BY DEF A!NewVisit, A!Visits, A!VisitStates
  <2>2. \A r \in Requests : visit[r].pc = "new"  BY DEF GateInit, A!NewVisit
  <2>3. NoAccounts \in A!Tables  BY DEF NoAccounts, A!Tables
  <2>4. ASSUME NEW e \in Emails, NEW p \in Passwords PROVE OneAccount(e, p) \in A!Tables
    BY GateConstants, OldIsOwner DEF OneAccount, A!Tables, A!UserRows, A!LoginRows
  <2>5. db \in A!Tables /\ disk = db /\ jar \subseteq [id : A!Owners, issued : Nat]
    BY <2>3, <2>4, OldIsOwner DEF GateInit
  <2>6. QED  BY <2>1, <2>2, <2>5 DEF GateInit, AccountsType, A!AccountsTypeOK
<1>2. BootInv
  <2>1. versions = {} \/ (versions = Versions /\ tables = AllTables)  BY DEF GateInit
  <2>2. \A m \in Versions : ScriptTables(m) \subseteq AllTables  BY ScriptTablesAre
  <2>3. tables \subseteq AllTables /\ versions \subseteq Versions  BY DEF GateInit
  <2>4. QED  BY <2>1, <2>2, <2>3 DEF GateInit, BootInv
<1>3. TrInv
  <2>1. IInv  BY InvInit DEF GateInit, TranslationInit
  <2>2. ask = [r \in Requests |-> NewAsk] /\ loop = None /\ told = {} /\ lastUse = [k \in Keys |-> None]
    BY DEF GateInit, TranslationInit
  <2>3. \A r \in Requests : ask[r].pc = "idle"  BY <2>2 DEF NewAsk
  <2>4. \A r \in Requests : Fits(r, ask[r])  BY <2>2, <2>3 DEF Fits, CachedFits, TimeFits, OnModel, Asked, NewAsk
  <2>5. TrTypes  BY <2>2, NewAskTyped DEF TrTypes
  <2>6. store = [k \in Keys |-> None] /\ due = [k \in Keys |-> None]
    BY DEF GateInit, TranslationInit, Init
  <2>7. UsesRenew /\ CacheIsFresh  BY <2>2, <2>6 DEF UsesRenew, CacheIsFresh, Live
  <2>8. QED  BY <2>1, <2>4, <2>5, <2>7 DEF TrInv
<1>4. crashes \in 0..MaxCrashes  BY GateConstants DEF GateInit
<1>5. QED  BY <1>1, <1>2, <1>3, <1>4 DEF GateInit, GateInv

LEMMA GateStep ==
    ASSUME GateInv, [GateNext]_gateVars
    PROVE  GateInv' /\ [Next]_vars /\ Spared
<1>1. CASE StartUp  BY <1>1, StartType
<1>2. ASSUME NEW r \in Requests, Client(r) PROVE GateInv' /\ [Next]_vars /\ Spared
  BY <1>2, ClientType, ClientApart, QuietStep DEF GateInv
<1>3. ASSUME NEW r \in Requests, Serve(r) PROVE GateInv' /\ [Next]_vars /\ Spared
  <2>1. TrInv' /\ [Next]_vars /\ Spared  BY <1>3, ClientApart, QuietStep DEF GateInv
  <2>2. AccountsType'
    BY <1>3, AccountStepType DEF Serve, GateInv, TrInv, IInv, TypeOK
  <2>3. QED  BY <1>3, <2>1, <2>2, AccountsOnly DEF Serve
<1>4. ASSUME NEW r \in Requests, ClearBy(r) PROVE GateInv' /\ [Next]_vars /\ Spared
  BY <1>4, ClearByStep
<1>5. ASSUME NEW r \in Requests, Translate(r) PROVE GateInv' /\ [Next]_vars /\ Spared
  <2>1. TrInv' /\ [Next]_vars /\ Spared  BY <1>5, TranslateStep DEF GateInv
  <2>2. UNCHANGED <<accounts, limits, started>>  BY <1>5 DEF Translate
  <2>3. AccountsType'  BY <2>2 DEF accounts, GateInv, AccountsType, A!AccountsTypeOK
  <2>4. QED  BY <2>1, <2>2, <2>3, AccountsOnly
<1>6. CASE Wait
  <2>1. Prompt /\ Tick /\ UNCHANGED <<ask, loop, told, lastUse, accounts, limits, started>>  BY <1>6 DEF Wait
  <2>2. TrInv' /\ [Next]_vars /\ Spared  BY <2>1, WaitStep DEF GateInv, accounts
  <2>3. AccountsType'  BY <2>1 DEF accounts, GateInv, AccountsType, A!AccountsTypeOK
  <2>4. QED  BY <2>1, <2>2, <2>3, AccountsOnly
<1>7. CASE Crash  BY <1>7, CrashType
<1>8. CASE UNCHANGED gateVars
  <2>1. UNCHANGED <<now, translation, accounts, limits, started>>  BY <1>8 DEF gateVars, vars, translation
  <2>2. TrInv' /\ [Next]_vars /\ Spared  BY <2>1, QuietStep DEF GateInv, Apart, accounts
  <2>3. AccountsType'  BY <2>1 DEF accounts, GateInv, AccountsType, A!AccountsTypeOK
  <2>4. QED  BY <2>1, <2>2, <2>3, AccountsOnly
<1>9. QED  BY <1>1, <1>2, <1>3, <1>4, <1>5, <1>6, <1>7, <1>8 DEF GateNext

LEMMA GateInvariance == GateSpec => []GateInv
BY GateInit0, GateStep, PTL DEF GateSpec

\* Every variable of the server keeps its type.
THEOREM GateTypes == GateSpec => []GateTypeOK
BY GateTyped, GateInvariance, PTL

\* Wherever starts are cut short, the next one comes up with every table there
\* and every migration recorded.
THEOREM Starts == GateSpec => []StartsAfterCrash
<1>1. GateInv => StartsAfterCrash  BY BootStarts DEF GateInv
<1>2. QED  BY <1>1, GateInvariance, PTL

\* What the translation cache holds for a question is a single call the model
\* gave for it since the cache was last cleared or the process started, though the
\* model may answer with chains and without a tool as well.
THEOREM CachedFresh == GateSpec => []CacheIsFresh
<1>1. GateInv => CacheIsFresh  BY DEF GateInv, TrInv
<1>2. QED  BY <1>1, GateInvariance, PTL

\* However the model times out or fails, a question waits for it no longer than
\* all its attempts may take, and its answer one timeout more.
THEOREM InTime == GateSpec => []AnsweredInTime
<1>1. ASSUME GateInv PROVE AnsweredInTime
  <2> SUFFICES ASSUME NEW r \in Requests, ask[r].pc \in OnModel
               PROVE  Waited(r) =< Timeout * IF ask[r].pc = "calling" THEN ask[r].tries ELSE Attempts + 1
    BY DEF AnsweredInTime
  <2>1. ask[r].tries \in Nat /\ Attempts \in Nat /\ Timeout \in Nat
    BY <1>1, TranslationConstants DEF GateInv, TrInv, TrTypes, Asks
  <2>2. CASE ask[r].pc = "calling"
    <3>1. Waited(r) =< ask[r].tries * Timeout  BY <1>1, <2>2, Waits DEF GateInv
    <3>2. ask[r].tries * Timeout = Timeout * ask[r].tries  BY <2>1
    <3>3. QED  BY <2>2, <3>1, <3>2
  <2>3. CASE ask[r].pc = "format"
    <3>1. Waited(r) =< Attempts * Timeout + Timeout  BY <1>1, <2>3, Waits DEF GateInv
    <3>2. Attempts * Timeout + Timeout = (Attempts + 1) * Timeout  BY <2>1, Distributes
    <3>3. (Attempts + 1) * Timeout = Timeout * (Attempts + 1)  BY <2>1
    <3>4. QED  BY <2>3, <3>1, <3>2, <3>3
  <2>4. QED  BY <2>2, <2>3 DEF OnModel
<1>2. GateInv => AnsweredInTime  BY <1>1
<1>3. QED  BY <1>2, GateInvariance, PTL

\* The server uses the translation cache as TTLCache allows.
LEMMA GateUsesCache == GateSpec => Spec
<1>1. GateInit => Init  BY DEF GateInit, TranslationInit
<1>2. GateInv /\ [GateNext]_gateVars => [Next]_vars  BY GateStep
<1>3. QED  BY <1>1, <1>2, GateInvariance, PTL DEF GateSpec, Spec

\* So a question that was translated or looked up lately is in the cache.
THEOREM LatelyUsedStays == GateSpec => []RecentlyUsedKept
BY GateUsesCache, LruGuarantee, PTL

\* To the questions of a server that crashes, clears and retries, the cache is
\* still a lossy store: no answer of another question, overwritten or too old.
THEOREM GateKeepsPromise == GateSpec => KeepsPromise
BY GateUsesCache, CacheKeepsPromise, PTL

\* The model is asked only for questions nobody used within the time to live,
\* or that enough other questions pushed out.
THEOREM ModelSpared == GateSpec => SparesModel
<1> DEFINE Step == \A r \in Requests : ask[r].pc # "calling" /\ ask'[r].pc = "calling" =>
                     LET k == ask'[r].key
                     IN  \/ lastUse[k] = None
                         \/ now > lastUse[k] + TTL
                         \/ Cardinality(since[k]) >= Max
<1>1. GateInv /\ [GateNext]_gateVars => [Step]_<<vars, ask, loop, told, lastUse>>
  BY GateStep DEF Spared
<1>2. QED  BY <1>1, GateInvariance, PTL DEF GateSpec, SparesModel

=============================================================================
