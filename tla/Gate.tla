-------------------------------- MODULE Gate --------------------------------
(***************************************************************************)
(* One server process, from its start to the pipeline: the start-up        *)
(* migrations (main.startup), the rate limiters, the requests that log     *)
(* users in and out (Accounts), a question's way to its translation        *)
(* (Translation, over TTLCache) and the clearing of the cache, which needs *)
(* a login.  A crash may come at any step; what is in memory is lost.      *)
(***************************************************************************)
EXTENDS Translation, Window

CONSTANTS
    Clients, Emails, Passwords, Old, SessionTTL,
    RateMax, RateWindow,    \* rate_limit_per_minute and its window
    AuthMax, AuthWindow,    \* auth_rate_limit
    MaxCrashes              \* bound on crashes

VARIABLES
    db, disk, jar, visit,   \* see Accounts
    hits,       \* RateLimiter.requests, per client
    tries,      \* AuthRateLimiter.attempts, per email and client
    boot,       \* how far start-up is
    tables,     \* tables of the app-state database, always on disk
    versions,   \* committed rows of schema_migrations
    crashes

\* None and Old are no request; the limits are those config.py may be given.
ASSUME GateConstants ==
    /\ None \notin Requests \cup Clients \cup Emails \cup Passwords \cup {Old}
    /\ None \notin [id : Requests \cup {Old}, issued : Nat]
    /\ Old \notin Requests
    /\ SessionTTL \in Nat /\ RateMax \in Nat /\ RateWindow \in Nat
    /\ AuthMax \in Nat /\ AuthWindow \in Nat /\ MaxCrashes \in Nat

A == INSTANCE Accounts

accounts == <<db, disk, jar, visit>>
limits == <<hits, tries>>
started == <<boot, tables, versions, crashes>>
gateVars == <<vars, ask, loop, told, lastUse, accounts, limits, started>>
translation == <<store, moves, got, due, since, ask, loop, told, lastUse>>

\* migrations_app/*.sql, in the order of their names
Scripts == << <<"users", "auth_sessions">>, <<"sessions", "messages">> >>
Versions == DOMAIN Scripts
AllTables == {Scripts[m][i] : m \in Versions, i \in 1..2}

\* the attempts the limiters keep
Attempted == [by : Requests, at : Nat]

GateTypeOK ==
    /\ TypeOK /\ TranslationTypeOK /\ A!AccountsTypeOK
    /\ hits \in [Clients -> SUBSET Attempted] /\ tries \in [Emails \X Clients -> SUBSET Attempted]
    /\ boot \in [pc : {"down", "next", "script", "record", "clean", "up", "failed"}, m : 0..2, line : 0..3]
    /\ tables \subseteq AllTables /\ versions \subseteq Versions
    /\ crashes \in 0..MaxCrashes

-----------------------------------------------------------------------------
(* Start-up *)

Boot(pc, m, line) == boot' = [pc |-> pc, m |-> m, line |-> line]

Start == boot.pc = "down" /\ Boot("next", 0, 0) /\ UNCHANGED <<tables, versions, db, disk, jar, visit>>

\* the first file whose version is not recorded
NextMigration ==
    LET pending == {m \in Versions : m \notin versions}
    IN  /\ boot.pc = "next"
        /\ IF pending = {} THEN Boot("clean", 0, 0)
           ELSE \E m \in pending : (\A n \in pending : m =< n) /\ Boot("script", m, 1)
        /\ UNCHANGED <<tables, versions, db, disk, jar, visit>>

\* fault: CREATE TABLE without IF NOT EXISTS
FailsIfThere(t) == t \in tables

\* CREATE TABLE IF NOT EXISTS
Fails(t) == t \notin AllTables

\* executescript: each statement commits on its own, BEGIN notwithstanding
RunStatement ==
    LET t == Scripts[boot.m][boot.line]
    IN  /\ boot.pc = "script"
        /\ IF Fails(t) THEN Boot("failed", boot.m, boot.line) /\ UNCHANGED tables
           ELSE /\ tables' = tables \cup {t}
                /\ Boot(IF boot.line = 2 THEN "record" ELSE "script", boot.m, boot.line + 1)
        /\ UNCHANGED <<versions, db, disk, jar, visit>>

\* INSERT INTO schema_migrations, and its commit
Record ==
    /\ boot.pc = "record"
    /\ versions' = versions \cup {boot.m}
    /\ Boot("next", 0, 0)
    /\ UNCHANGED <<tables, db, disk, jar, visit>>

Ready == boot.pc = "clean" /\ A!CleanUp /\ Boot("up", 0, 0) /\ UNCHANGED <<tables, versions>>

StartUp ==
    /\ Start \/ NextMigration \/ RunStatement \/ Record \/ Ready
    /\ UNCHANGED <<now, translation, limits, crashes>>

-----------------------------------------------------------------------------
(* Requests *)

\* logins whose logout was answered (history)
LoggedOut == {visit[q].cookie.id : q \in {x \in Requests :
                 visit[x].kind = "logout" /\ visit[x].pc = "out" /\ visit[x].cookie # None}}

Enter(r, v, pc) ==
    visit' = [visit EXCEPT ![r] = [v EXCEPT !.pc = pc, !.at = now, !.life = crashes,
                                            !.late = v.cookie # None /\ v.cookie.id \in LoggedOut]]

\* require_csrf refuses a changing request without the token
Forbidden(r, v) == v.kind \in {"register", "login", "logout"} /\ Enter(r, v, "forbidden") /\ UNCHANGED tries

\* register and login: throttle, validation, then the first await
Authenticate(r, v) ==
    LET key == <<v.email, v.client>>
    IN  /\ v.kind \in {"register", "login"}
        /\ tries' = [tries EXCEPT ![key] = Counted(@, AuthMax, AuthWindow, [by |-> r, at |-> now])]
        /\ Enter(r, v, CASE ~Allowed(tries[key], AuthMax, AuthWindow, now) -> "throttled"
                         [] Allowed(tries[key], AuthMax, AuthWindow, now) /\ v.kind = "login" -> "find"
                         [] OTHER -> IF v.password = None THEN "invalid" ELSE "hash")

\* the others: a cookie that is missing, forged or too old is no cookie
Identify(r, v) ==
    /\ v.kind \in {"logout", "query", "clear"}
    /\ Enter(r, v, CASE v.kind = "logout" -> IF A!TokenValid(v.cookie) THEN "unlogin" ELSE "out"
                     [] OTHER -> IF A!TokenValid(v.cookie) THEN "resolve" ELSE "in")
    /\ UNCHANGED tries

\* rate_limit_middleware, then the route
Arrive(r, v) ==
    /\ boot.pc = "up" /\ loop = None /\ visit[r].pc = "new"
    /\ hits' = [hits EXCEPT ![v.client] = Counted(@, RateMax, RateWindow, [by |-> r, at |-> now])]
    /\ IF Allowed(hits[v.client], RateMax, RateWindow, now)
         THEN Forbidden(r, v) \/ Authenticate(r, v) \/ Identify(r, v)
         ELSE Enter(r, v, "limited") /\ UNCHANGED tries
    /\ UNCHANGED <<now, translation, db, disk, jar, started>>

Client(r) ==
    \E c \in Clients :
        LET From(kind) == [A!NewVisit EXCEPT !.kind = kind, !.client = c]
        IN  \/ \E k \in {"register", "login"}, e \in Emails, p \in Passwords \cup {None} :
                  Arrive(r, [From(k) EXCEPT !.email = e, !.password = p])
            \/ \E k \in {"logout", "query", "clear"}, w \in jar \cup {None} :
                  Arrive(r, [From(k) EXCEPT !.cookie = w])

Serve(r) ==
    /\ boot.pc = "up" /\ loop = None
    /\ A!AccountStep(r)
    /\ UNCHANGED <<now, translation, limits, started>>

\* cache_clear, behind require_user
ClearBy(r) ==
    /\ visit[r].kind = "clear" /\ visit[r].pc = "in"
    /\ IF visit[r].user = None
         THEN A!Go(r, "unauthorized") /\ UNCHANGED <<now, translation>>
         ELSE A!Go(r, "done") /\ ClearCache /\ UNCHANGED ask
    /\ UNCHANGED <<db, disk, jar, limits, started>>

\* process_question
Translate(r) ==
    /\ visit[r].kind = "query" /\ visit[r].pc = "in"
    /\ \/ \E k \in Keys : Lookup(r, k)
       \/ UseCached(r)
       \/ \E v \in Values : ModelAnswers(r, v)
       \/ AttemptFails(r)
       \/ CallStep(r) \/ ChainStep(r) \/ Formatted(r)
    /\ UNCHANGED <<accounts, limits, started>>

\* Time passes while the process runs and waits, never past a timer that is due.
Wait == boot.pc = "up" /\ loop = None /\ Prompt /\ Tick /\ UNCHANGED <<ask, loop, told, lastUse, accounts, limits, started>>

Settled == A!Refused \cup {"new", "welcome", "out", "done"}

\* The process dies, and with it the caches, the limiters and every request.
Crash ==
    /\ boot.pc \notin {"down", "failed"} /\ crashes < MaxCrashes
    /\ crashes' = crashes + 1
    /\ Boot("down", 0, 0)
    /\ Clear /\ told' = {} /\ lastUse' = [k \in Keys |-> None] /\ loop' = None
    /\ ask' = [r \in Requests |-> IF visit[r].pc \in Settled THEN ask[r] ELSE [NewAsk EXCEPT !.pc = "lost"]]
    /\ visit' = [r \in Requests |-> IF visit[r].pc \in Settled THEN visit[r] ELSE [visit[r] EXCEPT !.pc = "lost"]]
    /\ db' = disk
    /\ hits' = [c \in Clients |-> {}] /\ tries' = [k \in Emails \X Clients |-> {}]
    /\ UNCHANGED <<disk, jar, tables, versions>>

NoAccounts == [users |-> {}, logins |-> {}]
OneAccount(e, p) == [users |-> {[id |-> Old, email |-> e, password |-> p]},
                     logins |-> {[id |-> Old, user |-> Old, until |-> SessionTTL]}]

\* A first start, or that of a server somebody is logged in to
GateInit ==
    /\ TranslationInit
    /\ \/ db = NoAccounts /\ jar = {} /\ tables = {} /\ versions = {}
       \/ /\ \E e \in Emails, p \in Passwords : db = OneAccount(e, p)
          /\ jar = {[id |-> Old, issued |-> 0]} /\ tables = AllTables /\ versions = Versions
    /\ disk = db
    /\ visit = [r \in Requests |-> A!NewVisit]
    /\ hits = [c \in Clients |-> {}] /\ tries = [k \in Emails \X Clients |-> {}]
    /\ boot = [pc |-> "down", m |-> 0, line |-> 0] /\ crashes = 0

GateNext ==
    \/ StartUp
    \/ \E r \in Requests : Client(r) \/ Serve(r) \/ ClearBy(r) \/ Translate(r)
    \/ Wait
    \/ Crash

GateSpec == GateInit /\ [][GateNext]_gateVars

-----------------------------------------------------------------------------
(* Properties *)

\* Both limiters against the requests themselves: of the requests one client (or
\* one email and client) made since the process started, one is refused exactly
\* when the limiter is on and as many as the limit were admitted within the window.
Admitted(q, refusals) ==
    visit[q].pc \notin {"new"} \cup refusals /\ visit[q].life = crashes
LimiterExact ==
    [][\A r \in Requests : visit[r].pc = "new" /\ visit'[r].pc # "new" =>
        LET v == visit'[r]
            ofClient == {q \in Requests : /\ Admitted(q, {"limited"}) /\ visit[q].client = v.client
                                          /\ visit[q].at + RateWindow > now}
            ofEmail == {q \in Requests : /\ Admitted(q, {"limited", "forbidden", "throttled"})
                                         /\ visit[q].kind \in {"register", "login"}
                                         /\ visit[q].client = v.client /\ visit[q].email = v.email
                                         /\ visit[q].at + AuthWindow > now}
        IN  /\ v.pc = "limited" <=> RateMax # 0 /\ Cardinality(ofClient) >= RateMax
            /\ v.kind \in {"register", "login"} /\ v.pc \notin {"limited", "forbidden"}
                 => (v.pc = "throttled" <=> AuthMax # 0 /\ Cardinality(ofEmail) >= AuthMax)]_gateVars

\* A registration that was answered stands: its account is on disk, and no other
\* has its email, however many registered at once.
AccountsAreKept ==
    \A r \in Requests : visit[r].kind = "register" /\ visit[r].pc = "welcome" =>
        \E u \in disk.users : /\ u.id = r /\ u.password = visit[r].password
                              /\ {w \in disk.users : w.email = visit[r].email} = {u}

\* A logout that was answered stands: no request that arrives later with that
\* cookie acts for anybody.
LogoutIsFinal == \A r \in Requests : visit[r].late => visit[r].user = None

\* A registration or login that was answered stands: it is for the account with
\* its email and password, which is on disk, and its row stays on disk until it
\* runs out or somebody logs out with its cookie.
LoginsAreKept ==
    \A r \in Requests : visit[r].kind \in {"register", "login"} /\ visit[r].pc = "welcome" =>
        /\ [id |-> visit[r].user, email |-> visit[r].email, password |-> visit[r].password] \in disk.users
        /\ \/ [id |-> r, user |-> visit[r].user, until |-> visit[r].until] \in disk.logins
           \/ visit[r].until =< now
           \/ \E q \in Requests : /\ visit[q].kind = "logout" /\ visit[q].cookie # None
                                  /\ visit[q].cookie.id = r /\ visit[q].pc \in {"saveOut", "out", "lost"}

\* What the server told a client holds through any crash.
AnswersStand == AccountsAreKept /\ LoginsAreKept /\ LogoutIsFinal

\* Wherever an earlier start was cut short, the next one comes up, with every
\* table there and every migration recorded; none is recorded before it is done.
StartsAfterCrash ==
    /\ boot.pc # "failed"
    /\ boot.pc \in {"clean", "up"} => tables = AllTables /\ versions = Versions
    /\ \A m \in versions : {Scripts[m][i] : i \in 1..2} \subseteq tables
=============================================================================
