------------------------ MODULE Gate_requests_proofs ------------------------
(***************************************************************************)
(* Machine-checked proofs about the requests of Gate: what the rate        *)
(* limiters count, and what a client was told about its account holds      *)
(* through any interleaving and crash.                                     *)
(***************************************************************************)
EXTENDS Gate_proofs

(***************************************************************************)
(* The limiters.                                                           *)
(*                                                                         *)
(* A limiter that is on keeps, of the attempts it admitted since the       *)
(* process started, at least those within the window, and no others.       *)
(***************************************************************************)
Keeps(s, admitted, window) ==
    IsFiniteSet(s) /\ s \subseteq admitted /\ Recent(admitted, window, now) \subseteq s

AttemptsOf(P) == {[by |-> q, at |-> visit[q].at] : q \in P}
Within(P, window) == {q \in P : visit[q].at + window > now}

OfClient(c) == {q \in Requests : Admitted(q, {"limited"}) /\ visit[q].client = c}
OfEmail(k) ==
    {q \in Requests : /\ Admitted(q, {"limited", "forbidden", "throttled"})
                      /\ visit[q].kind \in {"register", "login"}
                      /\ <<visit[q].email, visit[q].client>> = k}

LimitInv ==
    /\ \A q \in Requests : visit[q].life =< crashes
    /\ RateMax # 0 => \A c \in Clients : Keeps(hits[c], AttemptsOf(OfClient(c)), RateWindow)
    /\ AuthMax # 0 => \A k \in Emails \X Clients : Keeps(tries[k], AttemptsOf(OfEmail(k)), AuthWindow)

\* An attempt that is admitted joins those kept; one that is not leaves them.
LEMMA KeepsCounted ==
    ASSUME NEW s, NEW S, NEW S2, NEW a, a.at = now, NEW max, max # 0, NEW window,
           Keeps(s, S, window), S2 = IF Allowed(s, max, window, now) THEN S \cup {a} ELSE S
    PROVE  IsFiniteSet(Counted(s, max, window, a)) /\ Counted(s, max, window, a) \subseteq S2
           /\ Recent(S2, window, now) \subseteq Counted(s, max, window, a)
<1>1. IsFiniteSet(Recent(s, window, now))  BY FS_Subset DEF Keeps, Recent
<1>2. IsFiniteSet(Recent(s, window, now) \cup {a})  BY <1>1, FS_AddElement
<1>3. Recent(S, window, now) \subseteq Recent(s, window, now)  BY DEF Keeps, Recent
<1>4. CASE Allowed(s, max, window, now)
  <2>1. Counted(s, max, window, a) = Recent(s, window, now) \cup {a}  BY <1>4 DEF Counted
  <2>2. S2 = S \cup {a}  BY <1>4
  <2>3. QED  BY <1>2, <1>3, <2>1, <2>2 DEF Keeps, Recent
<1>5. CASE ~Allowed(s, max, window, now)
  <2>1. Counted(s, max, window, a) = Recent(s, window, now)  BY <1>5 DEF Counted
  <2>2. S2 = S  BY <1>5
  <2>3. QED  BY <1>1, <1>3, <2>1, <2>2 DEF Keeps, Recent
<1>6. QED  BY <1>4, <1>5

\* As many attempts as requests
LEMMA OneAttemptEach ==
    ASSUME NEW P, IsFiniteSet(AttemptsOf(P))
    PROVE  IsFiniteSet(P) /\ Cardinality(P) = Cardinality(AttemptsOf(P))
<1> DEFINE S == AttemptsOf(P)
           f == [a \in S |-> a.by]
           g == [q \in P |-> [by |-> q, at |-> visit[q].at]]
<1>1. f \in Surjection(S, P)
  <2>1. \A a \in S : a.by \in P  BY DEF AttemptsOf
  <2>2. \A q \in P : [by |-> q, at |-> visit[q].at] \in S /\ f[[by |-> q, at |-> visit[q].at]] = q
    BY DEF AttemptsOf
  <2>3. f \in [S -> P]  BY <2>1
  <2> HIDE DEF f, S
  <2>4. QED  BY <2>2, <2>3 DEF Surjection
<1>2. g \in Surjection(P, S)
  <2>1. g \in [P -> S]  BY DEF AttemptsOf
  <2>2. \A a \in S : \E q \in P : g[q] = a  BY DEF AttemptsOf
  <2> HIDE DEF g, S
  <2>3. QED  BY <2>1, <2>2 DEF Surjection
<1> HIDE DEF f, g, S
<1>3. IsFiniteSet(S)  BY DEF S
<1>4. IsFiniteSet(P) /\ Cardinality(P) =< Cardinality(S)  BY <1>1, <1>3, FS_Surjection
<1>5. Cardinality(S) =< Cardinality(P)  BY <1>2, <1>4, FS_Surjection
<1>6. Cardinality(P) \in Nat /\ Cardinality(S) \in Nat  BY <1>3, <1>4, FS_CardinalityType
<1>7. Cardinality(P) = Cardinality(S)  BY <1>4, <1>5, <1>6
<1>8. QED  BY <1>4, <1>7 DEF S

\* A limiter refuses exactly when the requests of the window have used it up.
LEMMA LimitedExactly ==
    ASSUME NEW s, NEW P, NEW window, NEW max \in Nat,
           max # 0 => Keeps(s, AttemptsOf(P), window)
    PROVE  ~Allowed(s, max, window, now)
             <=> max # 0 /\ Cardinality(Within(P, window)) >= max
<1>1. CASE max = 0  BY <1>1 DEF Allowed
<1>2. CASE max # 0
  <2> DEFINE Q == Within(P, window)
  <2>1. Recent(s, window, now) = AttemptsOf(Q)  BY <1>2 DEF Keeps, Recent, AttemptsOf, Within
  <2>2. IsFiniteSet(Recent(s, window, now))  BY <1>2, FS_Subset DEF Keeps, Recent
  <2> HIDE DEF Q
  <2>3. Cardinality(Q) = Cardinality(Recent(s, window, now))  BY <2>1, <2>2, OneAttemptEach
  <2>4. Cardinality(Q) \in Nat  BY <2>2, <2>3, FS_CardinalityType
  <2>5. ~Allowed(s, max, window, now) <=> Cardinality(Q) >= max  BY <1>2, <2>3, <2>4 DEF Allowed
  <2>6. QED  BY <1>2, <2>5 DEF Q
<1>3. QED  BY <1>1, <1>2

\* What the limiters look at in a request
Unmetered(q) ==
    /\ visit'[q].at = visit[q].at /\ visit'[q].life = visit[q].life /\ visit'[q].kind = visit[q].kind
    /\ visit'[q].client = visit[q].client /\ visit'[q].email = visit[q].email
    /\ \A p \in {"new", "limited", "forbidden", "throttled"} : visit'[q].pc = p <=> visit[q].pc = p

Arrives(r, w) ==
    /\ visit[r].pc = "new" /\ visit' = [visit EXCEPT ![r] = w] /\ Arrived(r, w) /\ Metered(r, w)
    /\ UNCHANGED <<now, crashes>>

\* The limiters see a request arrive, a crash, or nothing.
LEMMA MeterSteps ==
    ASSUME GateInv, [GateNext]_gateVars
    PROVE  \/ (\A q \in Requests : Unmetered(q)) /\ UNCHANGED limits /\ crashes' = crashes /\ now' \in {now, now + 1}
           \/ Crash
           \/ \E r \in Requests, w \in A!Visits : Arrives(r, w)
<1> DEFINE Quiet == /\ \A q \in Requests : Unmetered(q)
                    /\ UNCHANGED limits /\ crashes' = crashes /\ now' \in {now, now + 1}
<1>0. visit \in [Requests -> A!Visits] /\ now \in Nat /\ crashes \in Nat
  BY GateConstants DEF GateInv, AccountsType, A!AccountsTypeOK, TrInv, IInv, TypeOK
<1>1. ASSUME visit' = visit, UNCHANGED limits, crashes' = crashes, now' \in {now, now + 1} PROVE Quiet
  BY <1>1 DEF Unmetered
<1>2. CASE StartUp
  <2>1. visit' = visit
    BY <1>2 DEF StartUp, Start, NextMigration, RunStatement, Record, Ready, A!CleanUp
  <2>2. QED  BY <1>1, <1>2, <2>1 DEF StartUp
<1>3. ASSUME NEW r \in Requests, Client(r) PROVE \E w \in A!Visits : Arrives(r, w)
  <2>1. PICK w \in A!Visits : visit' = [visit EXCEPT ![r] = w] /\ Arrived(r, w) /\ Metered(r, w)
    BY <1>0, <1>3, ClientStep DEF GateInv
  <2>2. visit[r].pc = "new" /\ UNCHANGED <<now, started>>  BY <1>0, <1>3, ClientStep DEF GateInv
  <2>3. QED  BY <2>1, <2>2 DEF Arrives, started
<1>4. ASSUME NEW r \in Requests, Serve(r) PROVE Quiet
  <2>1. PICK w : /\ visit' = [visit EXCEPT ![r] = w]
                 /\ w.pc \in A!Waiting \cup {"conflict", "denied", "welcome", "out", "in"}
                 /\ w.at = visit[r].at /\ w.life = visit[r].life /\ w.kind = visit[r].kind
                 /\ w.client = visit[r].client /\ w.email = visit[r].email
    BY <1>0, <1>4, ServeStep DEF GateInv
  <2>2. visit[r].pc \in A!Waiting /\ UNCHANGED <<now, limits, started>>
    BY <1>0, <1>4, ServeStep DEF GateInv
  <2>3. \A q \in Requests \ {r} : visit'[q] = visit[q]  BY <1>0, <2>1
  <2>4. visit'[r] = w  BY <1>0, <2>1
  <2>5. \A p \in {"new", "limited", "forbidden", "throttled"} : w.pc # p /\ visit[r].pc # p
    BY <2>1, <2>2 DEF A!Waiting
  <2>6. \A q \in Requests : Unmetered(q)  BY <2>1, <2>3, <2>4, <2>5 DEF Unmetered
  <2>7. QED  BY <2>2, <2>6 DEF started
<1>5. ASSUME NEW r \in Requests, ClearBy(r) PROVE Quiet
  <2>1. PICK p \in {"unauthorized", "done"} : visit' = [visit EXCEPT ![r] = [visit[r] EXCEPT !.pc = p]]
    BY <1>5 DEF ClearBy, A!Go
  <2>2. visit[r].pc = "in" /\ UNCHANGED <<now, limits, started>>
    BY <1>5 DEF ClearBy, ClearCache, Clear
  <2>3. \A q \in Requests \ {r} : visit'[q] = visit[q]  BY <1>0, <2>1
  <2>4. /\ visit'[r].pc = p /\ visit'[r].at = visit[r].at /\ visit'[r].life = visit[r].life
        /\ visit'[r].kind = visit[r].kind
        /\ visit'[r].client = visit[r].client /\ visit'[r].email = visit[r].email
    BY <1>0, <2>1 DEF A!Visits
  <2>5. \A q \in Requests : Unmetered(q)  BY <2>2, <2>3, <2>4 DEF Unmetered
  <2>6. QED  BY <2>2, <2>5 DEF started
<1>6. ASSUME NEW r \in Requests, Translate(r) PROVE Quiet
  <2>1. UNCHANGED <<accounts, limits, started>>  BY <1>6 DEF Translate
  <2>2. now' = now
    BY <1>6 DEF Translate, Lookup, Hit, Miss, Expire, UseCached, ModelAnswers, Take, Cache, Set, AttemptFails, CallStep, ChainStep, Formatted
  <2>3. QED  BY <1>1, <2>1, <2>2 DEF accounts, started
<1>7. CASE Wait  BY <1>1, <1>7 DEF Wait, Tick, accounts, started
<1>8. CASE UNCHANGED gateVars  BY <1>1, <1>8 DEF gateVars, vars, accounts, started
<1>9. QED  BY <1>2, <1>3, <1>4, <1>5, <1>6, <1>7, <1>8 DEF GateNext

LEMMA LimitsQuiet ==
    ASSUME GateInv, LimitInv, \A q \in Requests : Unmetered(q),
           UNCHANGED limits, crashes' = crashes, now' \in {now, now + 1}
    PROVE  LimitInv'
<1>0. now \in Nat /\ visit \in [Requests -> A!Visits]
  BY DEF GateInv, AccountsType, A!AccountsTypeOK, TrInv, IInv, TypeOK
<1>1. \A c : OfClient(c)' = OfClient(c)  BY DEF OfClient, Admitted, Unmetered
<1>2. \A k : OfEmail(k)' = OfEmail(k)  BY DEF OfEmail, Admitted, Unmetered
<1>3. ASSUME NEW P \in SUBSET Requests PROVE {[by |-> q, at |-> visit'[q].at] : q \in P} = AttemptsOf(P)
  BY DEF AttemptsOf, Unmetered
<1>4. ASSUME NEW s, NEW P \in SUBSET Requests, NEW window \in Nat, Keeps(s, AttemptsOf(P), window)
      PROVE  /\ IsFiniteSet(s) /\ s \subseteq AttemptsOf(P)
             /\ Recent(AttemptsOf(P), window, now') \subseteq s
  <2>1. \A a \in AttemptsOf(P) : a.at \in Nat  BY <1>0 DEF AttemptsOf, A!Visits
  <2>2. Recent(AttemptsOf(P), window, now') \subseteq Recent(AttemptsOf(P), window, now)
    BY <1>0, <2>1 DEF Recent
  <2>3. QED  BY <1>4, <2>2 DEF Keeps
<1>5. \A q \in Requests : visit'[q].life =< crashes'  BY DEF LimitInv, Unmetered
<1>6. ASSUME RateMax # 0, NEW c \in Clients PROVE Keeps(hits[c], AttemptsOf(OfClient(c)), RateWindow)'
  <2>1. Keeps(hits[c], AttemptsOf(OfClient(c)), RateWindow) /\ hits' = hits  BY <1>6 DEF LimitInv, limits
  <2>2. OfClient(c) \subseteq Requests  BY DEF OfClient
  <2>3. AttemptsOf(OfClient(c))' = AttemptsOf(OfClient(c))  BY <1>1, <1>3, <2>2 DEF AttemptsOf
  <2>4. QED  BY <1>4, <2>1, <2>2, <2>3, GateConstants DEF Keeps
<1>7. ASSUME AuthMax # 0, NEW k \in Emails \X Clients PROVE Keeps(tries[k], AttemptsOf(OfEmail(k)), AuthWindow)'
  <2>1. Keeps(tries[k], AttemptsOf(OfEmail(k)), AuthWindow) /\ tries' = tries  BY <1>7 DEF LimitInv, limits
  <2>2. OfEmail(k) \subseteq Requests  BY DEF OfEmail
  <2>3. AttemptsOf(OfEmail(k))' = AttemptsOf(OfEmail(k))  BY <1>2, <1>3, <2>2 DEF AttemptsOf
  <2>4. QED  BY <1>4, <2>1, <2>2, <2>3, GateConstants DEF Keeps
<1>8. QED  BY <1>5, <1>6, <1>7 DEF LimitInv

\* A crash forgets the attempts, and a new life has seen none.
LEMMA LimitsCrash == ASSUME GateInv, LimitInv, Crash PROVE LimitInv'
<1>1. crashes \in Nat /\ crashes' = crashes + 1 /\ visit \in [Requests -> A!Visits]
  BY GateConstants DEF Crash, GateInv, AccountsType, A!AccountsTypeOK
<1>2. ASSUME NEW q \in Requests PROVE visit'[q].life = visit[q].life /\ visit[q].life \in Nat
  <2>1. visit[q] \in A!Visits  BY <1>1
  <2>2. [visit[q] EXCEPT !.pc = "lost"].life = visit[q].life  BY <2>1 DEF A!Visits
  <2>3. visit'[q] = visit[q] \/ visit'[q] = [visit[q] EXCEPT !.pc = "lost"]  BY DEF Crash
  <2>4. QED  BY <2>1, <2>2, <2>3 DEF A!Visits
<1>3. \A q \in Requests : visit'[q].life < crashes'  BY <1>1, <1>2 DEF LimitInv
<1>4. \A q \in Requests : visit'[q].life =< crashes' /\ visit'[q].life # crashes'
  BY <1>1, <1>2, <1>3
<1>5. (\A c : OfClient(c)' = {}) /\ (\A k : OfEmail(k)' = {})
  BY <1>4 DEF OfClient, OfEmail, Admitted
<1>6. ASSUME NEW c \in Clients PROVE Keeps(hits[c], AttemptsOf(OfClient(c)), RateWindow)'
  BY <1>5, FS_EmptySet DEF Keeps, AttemptsOf, Recent, Crash
<1>7. ASSUME NEW k \in Emails \X Clients PROVE Keeps(tries[k], AttemptsOf(OfEmail(k)), AuthWindow)'
  BY <1>5, FS_EmptySet DEF Keeps, AttemptsOf, Recent, Crash
<1>8. QED  BY <1>4, <1>6, <1>7 DEF LimitInv

\* Who is admitted joins the requests the limiter counts; who is not does not.
LEMMA Joining ==
    ASSUME NEW P \in SUBSET Requests, NEW r \in Requests, NEW w \in A!Visits, r \notin P,
           visit' = [visit EXCEPT ![r] = w], visit \in [Requests -> A!Visits], w.at = now,
           NEW ok \in BOOLEAN
    PROVE  {[by |-> q, at |-> visit'[q].at] : q \in IF ok THEN P \cup {r} ELSE P}
             = IF ok THEN AttemptsOf(P) \cup {[by |-> r, at |-> now]} ELSE AttemptsOf(P)
<1>1. \A q \in P : visit'[q] = visit[q]  OBVIOUS
<1>2. visit'[r] = w  OBVIOUS
<1>3. CASE ok
  <2>1. {[by |-> q, at |-> visit'[q].at] : q \in P \cup {r}}
          = {[by |-> q, at |-> visit'[q].at] : q \in P} \cup {[by |-> r, at |-> visit'[r].at]}
    OBVIOUS
  <2>2. {[by |-> q, at |-> visit'[q].at] : q \in P} = AttemptsOf(P)  BY <1>1 DEF AttemptsOf
  <2>3. QED  BY <1>2, <1>3, <2>1, <2>2
<1>4. CASE ~ok
  <2>1. {[by |-> q, at |-> visit'[q].at] : q \in P} = AttemptsOf(P)  BY <1>1 DEF AttemptsOf
  <2>2. QED  BY <1>4, <2>1
<1>5. QED  BY <1>3, <1>4

LEMMA LimitsArrive ==
    ASSUME GateInv, LimitInv, NEW r \in Requests, NEW w \in A!Visits, Arrives(r, w)
    PROVE  LimitInv'
<1> DEFINE a == [by |-> r, at |-> now]
<1>0. /\ visit \in [Requests -> A!Visits] /\ visit' = [visit EXCEPT ![r] = w] /\ visit[r].pc = "new"
      /\ w.at = now /\ w.life = crashes /\ now' = now /\ crashes' = crashes /\ crashes \in Nat
      /\ hits \in [Clients -> SUBSET Attempted] /\ tries \in [Emails \X Clients -> SUBSET Attempted]
      /\ w.client \in Clients /\ w.pc # "new"
      /\ w.kind \in {"register", "login"} => w.email \in Emails
  BY GateConstants DEF Arrives, Arrived, GateInv, AccountsType, A!AccountsTypeOK
<1>1. visit'[r] = w /\ \A q \in Requests \ {r} : visit'[q] = visit[q]  BY <1>0
<1>2. \A q \in Requests : visit'[q].life =< crashes'  BY <1>0, <1>1 DEF LimitInv
<1>3. ASSUME RateMax # 0, NEW c \in Clients PROVE Keeps(hits[c], AttemptsOf(OfClient(c)), RateWindow)'
  <2> DEFINE P == OfClient(c)
             ok == c = w.client /\ w.pc # "limited"
  <2>1. OfClient(c)' = IF ok THEN P \cup {r} ELSE P
    BY <1>0, <1>1 DEF OfClient, Admitted
  <2>2. P \in SUBSET Requests /\ r \notin P /\ ok \in BOOLEAN  BY <1>0 DEF OfClient, Admitted
  <2>3. Keeps(hits[c], AttemptsOf(P), RateWindow)  BY <1>3 DEF LimitInv
  <2>4. AttemptsOf(OfClient(c))' = IF ok THEN AttemptsOf(P) \cup {a} ELSE AttemptsOf(P)
    <3> HIDE DEF P, ok
    <3>1. {[by |-> q, at |-> visit'[q].at] : q \in IF ok THEN P \cup {r} ELSE P}
            = IF ok THEN AttemptsOf(P) \cup {a} ELSE AttemptsOf(P)
      BY <1>0, <2>2, Joining
    <3>2. QED  BY <2>1, <3>1 DEF AttemptsOf
  <2>5. hits' = [hits EXCEPT ![w.client] = Counted(hits[w.client], RateMax, RateWindow, a)]
        /\ (w.pc = "limited" <=> ~Allowed(hits[w.client], RateMax, RateWindow, now))
    BY DEF Arrives, Metered
  <2>6. CASE c = w.client
    <3>1. AttemptsOf(OfClient(c))'
            = IF Allowed(hits[c], RateMax, RateWindow, now) THEN AttemptsOf(P) \cup {a} ELSE AttemptsOf(P)
      BY <2>4, <2>5, <2>6
    <3>2. hits'[c] = Counted(hits[c], RateMax, RateWindow, a) /\ a.at = now  BY <1>0, <2>5, <2>6
    <3> HIDE DEF P, a
    <3>3. PICK S2 : S2 = AttemptsOf(OfClient(c))'  OBVIOUS
    <3>4. /\ IsFiniteSet(hits'[c]) /\ hits'[c] \subseteq S2
          /\ Recent(S2, RateWindow, now) \subseteq hits'[c]
      <4>1. S2 = IF Allowed(hits[c], RateMax, RateWindow, now) THEN AttemptsOf(P) \cup {a} ELSE AttemptsOf(P)
        BY <3>1, <3>3
      <4>2. a.at = now  BY <3>2
      <4>3. /\ IsFiniteSet(Counted(hits[c], RateMax, RateWindow, a)) /\ Counted(hits[c], RateMax, RateWindow, a) \subseteq S2
            /\ Recent(S2, RateWindow, now) \subseteq Counted(hits[c], RateMax, RateWindow, a)
        BY <1>3, <2>3, <4>1, <4>2, KeepsCounted
      <4>4. QED  BY <3>2, <4>3
    <3>5. QED  BY <1>0, <3>3, <3>4 DEF Keeps
  <2>7. CASE c # w.client
    <3>1. AttemptsOf(OfClient(c))' = AttemptsOf(P) /\ hits'[c] = hits[c]  BY <1>0, <2>4, <2>5, <2>7
    <3> HIDE DEF P
    <3>2. QED  BY <1>0, <2>3, <3>1 DEF Keeps
  <2>8. QED  BY <2>6, <2>7
<1>4. ASSUME AuthMax # 0, NEW k \in Emails \X Clients PROVE Keeps(tries[k], AttemptsOf(OfEmail(k)), AuthWindow)'
  <2> DEFINE P == OfEmail(k)
             key == <<w.email, w.client>>
             ok == /\ w.kind \in {"register", "login"} /\ key = k
                   /\ w.pc \notin {"limited", "forbidden", "throttled"}
  <2>1. OfEmail(k)' = IF ok THEN P \cup {r} ELSE P
    BY <1>0, <1>1 DEF OfEmail, Admitted
  <2>2. P \in SUBSET Requests /\ r \notin P /\ ok \in BOOLEAN  BY <1>0 DEF OfEmail, Admitted
  <2>3. Keeps(tries[k], AttemptsOf(P), AuthWindow)  BY <1>4 DEF LimitInv
  <2>4. AttemptsOf(OfEmail(k))' = IF ok THEN AttemptsOf(P) \cup {a} ELSE AttemptsOf(P)
    <3> HIDE DEF P, ok
    <3>1. {[by |-> q, at |-> visit'[q].at] : q \in IF ok THEN P \cup {r} ELSE P}
            = IF ok THEN AttemptsOf(P) \cup {a} ELSE AttemptsOf(P)
      BY <1>0, <2>2, Joining
    <3>2. QED  BY <2>1, <3>1 DEF AttemptsOf
  <2>5. \/ /\ w.kind \in {"register", "login"} /\ w.pc \notin {"limited", "forbidden"}
           /\ tries' = [tries EXCEPT ![key] = Counted(tries[key], AuthMax, AuthWindow, a)]
           /\ w.pc = "throttled" <=> ~Allowed(tries[key], AuthMax, AuthWindow, now)
        \/ (w.kind \notin {"register", "login"} \/ w.pc \in {"limited", "forbidden"}) /\ tries' = tries
    BY DEF Arrives, Metered
  <2>6. CASE /\ key = k /\ w.kind \in {"register", "login"} /\ w.pc \notin {"limited", "forbidden"}
    <3>1. /\ tries' = [tries EXCEPT ![k] = Counted(tries[k], AuthMax, AuthWindow, a)]
          /\ w.pc = "throttled" <=> ~Allowed(tries[k], AuthMax, AuthWindow, now)
      BY <2>5, <2>6
    <3>2. ok <=> Allowed(tries[k], AuthMax, AuthWindow, now)  BY <2>6, <3>1
    <3>3. tries'[k] = Counted(tries[k], AuthMax, AuthWindow, a) /\ a.at = now  BY <1>0, <3>1
    <3> HIDE DEF P, a, ok
    <3>4. AttemptsOf(OfEmail(k))'
            = IF Allowed(tries[k], AuthMax, AuthWindow, now) THEN AttemptsOf(P) \cup {a} ELSE AttemptsOf(P)
      BY <2>4, <3>2
    <3>5. PICK S2 : S2 = AttemptsOf(OfEmail(k))'  OBVIOUS
    <3>6. /\ IsFiniteSet(tries'[k]) /\ tries'[k] \subseteq S2
          /\ Recent(S2, AuthWindow, now) \subseteq tries'[k]
      <4>1. S2 = IF Allowed(tries[k], AuthMax, AuthWindow, now) THEN AttemptsOf(P) \cup {a} ELSE AttemptsOf(P)
        BY <3>4, <3>5
      <4>2. a.at = now  BY <3>3
      <4>3. /\ IsFiniteSet(Counted(tries[k], AuthMax, AuthWindow, a)) /\ Counted(tries[k], AuthMax, AuthWindow, a) \subseteq S2
            /\ Recent(S2, AuthWindow, now) \subseteq Counted(tries[k], AuthMax, AuthWindow, a)
        BY <1>4, <2>3, <4>1, <4>2, KeepsCounted
      <4>4. QED  BY <3>3, <4>3
    <3>7. QED  BY <1>0, <3>5, <3>6 DEF Keeps
  <2>7. CASE ~(key = k /\ w.kind \in {"register", "login"} /\ w.pc \notin {"limited", "forbidden"})
    <3>1. ~ok  BY <2>7
    <3>2. tries'[k] = tries[k]  BY <1>0, <2>5, <2>7
    <3> HIDE DEF P, a, ok
    <3>3. AttemptsOf(OfEmail(k))' = AttemptsOf(P)  BY <2>4, <3>1
    <3>4. QED  BY <1>0, <2>3, <3>2, <3>3 DEF Keeps
  <2>8. QED  BY <2>6, <2>7
<1>5. QED  BY <1>2, <1>3, <1>4 DEF LimitInv

LEMMA LimitsInit == GateInit => LimitInv
<1> SUFFICES ASSUME GateInit PROVE LimitInv  OBVIOUS
<1>1. \A q \in Requests : visit[q].pc = "new" /\ visit[q].life =< crashes  BY DEF GateInit, A!NewVisit
<1>2. (\A c : OfClient(c) = {}) /\ (\A k : OfEmail(k) = {})  BY <1>1 DEF OfClient, OfEmail, Admitted
<1>3. \A c \in Clients : Keeps(hits[c], AttemptsOf(OfClient(c)), RateWindow)
  BY <1>2, FS_EmptySet DEF GateInit, Keeps, AttemptsOf, Recent
<1>4. \A k \in Emails \X Clients : Keeps(tries[k], AttemptsOf(OfEmail(k)), AuthWindow)
  BY <1>2, FS_EmptySet DEF GateInit, Keeps, AttemptsOf, Recent
<1>5. QED  BY <1>1, <1>3, <1>4 DEF LimitInv

LEMMA LimitsNext == GateInv /\ LimitInv /\ [GateNext]_gateVars => LimitInv'
BY MeterSteps, LimitsQuiet, LimitsCrash, LimitsArrive

\* Both limiters refuse a request exactly when the limit's worth of requests was
\* admitted within the window, whatever came between and however many requests
\* arrive at once: no attempt is counted twice, forgotten early or kept too long.
THEOREM LimitersExact == GateSpec => LimiterExact
<1> DEFINE Exact == \A r \in Requests : visit[r].pc = "new" /\ visit'[r].pc # "new" =>
        LET v == visit'[r]
            ofClient == {q \in Requests : /\ Admitted(q, {"limited"}) /\ visit[q].client = v.client
                                          /\ visit[q].at + RateWindow > now}
            ofEmail == {q \in Requests : /\ Admitted(q, {"limited", "forbidden", "throttled"})
                                         /\ visit[q].kind \in {"register", "login"}
                                         /\ visit[q].client = v.client /\ visit[q].email = v.email
                                         /\ visit[q].at + AuthWindow > now}
        IN  /\ v.pc = "limited" <=> RateMax # 0 /\ Cardinality(ofClient) >= RateMax
            /\ v.kind \in {"register", "login"} /\ v.pc \notin {"limited", "forbidden"}
                 => (v.pc = "throttled" <=> AuthMax # 0 /\ Cardinality(ofEmail) >= AuthMax)
<1>1. ASSUME GateInv, LimitInv, [GateNext]_gateVars PROVE Exact
  <2>1. CASE \A q \in Requests : Unmetered(q)  BY <2>1 DEF Unmetered
  <2>2. CASE Crash
    <3>1. \A q \in Requests : visit[q].pc = "new" => visit'[q] = visit[q]  BY <2>2 DEF Crash, Settled
    <3>2. QED  BY <3>1
  <2>3. ASSUME NEW r \in Requests, NEW v \in A!Visits, Arrives(r, v) PROVE Exact
    <3>1. visit'[r] = v /\ \A q \in Requests \ {r} : visit'[q] = visit[q]
      BY <1>1, <2>3 DEF Arrives, GateInv, AccountsType, A!AccountsTypeOK
    <3> DEFINE ofClient == Within(OfClient(v.client), RateWindow)
               ofEmail == Within(OfEmail(<<v.email, v.client>>), AuthWindow)
    <3>2. v.pc = "limited" <=> RateMax # 0 /\ Cardinality(ofClient) >= RateMax
      <4>1. v.client \in Clients  BY <2>3 DEF Arrives, Arrived
      <4>2. RateMax # 0 => Keeps(hits[v.client], AttemptsOf(OfClient(v.client)), RateWindow)
        BY <1>1, <4>1 DEF LimitInv
      <4>3. v.pc = "limited" <=> ~Allowed(hits[v.client], RateMax, RateWindow, now)
        BY <2>3 DEF Arrives, Metered
      <4>4. QED  BY <4>2, <4>3, LimitedExactly, GateConstants
    <3>3. ASSUME v.kind \in {"register", "login"}, v.pc \notin {"limited", "forbidden"}
          PROVE  v.pc = "throttled" <=> AuthMax # 0 /\ Cardinality(ofEmail) >= AuthMax
      <4> DEFINE k == <<v.email, v.client>>
      <4>1. k \in Emails \X Clients  BY <2>3, <3>3 DEF Arrives, Arrived
      <4>2. AuthMax # 0 => Keeps(tries[k], AttemptsOf(OfEmail(k)), AuthWindow)  BY <1>1, <4>1 DEF LimitInv
      <4>3. v.pc = "throttled" <=> ~Allowed(tries[k], AuthMax, AuthWindow, now)
        BY <2>3, <3>3 DEF Arrives, Metered
      <4> HIDE DEF k
      <4>4. v.pc = "throttled"
              <=> AuthMax # 0 /\ Cardinality(Within(OfEmail(k), AuthWindow)) >= AuthMax
        BY <4>2, <4>3, LimitedExactly, GateConstants
      <4>5. QED  BY <4>4 DEF k
    <3>4. ofClient = {q \in Requests : /\ Admitted(q, {"limited"}) /\ visit[q].client = v.client
                                       /\ visit[q].at + RateWindow > now}
      BY DEF OfClient, Within
    <3>5. ofEmail = {q \in Requests : /\ Admitted(q, {"limited", "forbidden", "throttled"})
                                      /\ visit[q].kind \in {"register", "login"}
                                      /\ visit[q].client = v.client /\ visit[q].email = v.email
                                      /\ visit[q].at + AuthWindow > now}
      BY DEF OfEmail, Within
    <3> HIDE DEF ofClient, ofEmail
    <3>6. QED  BY <3>1, <3>2, <3>3, <3>4, <3>5
  <2>4. QED  BY <1>1, <2>1, <2>2, <2>3, MeterSteps
<1>2. GateInv /\ LimitInv /\ [GateNext]_gateVars => [Exact]_gateVars  BY <1>1
<1>3. GateSpec => []LimitInv
  BY LimitsInit, LimitsNext, GateInvariance, PTL DEF GateSpec
<1>4. QED  BY <1>2, <1>3, GateInvariance, PTL DEF GateSpec, LimiterExact

(***************************************************************************)
(* Accounts.                                                               *)
(*                                                                         *)
(* The strengthened invariant follows what each request has written.  The  *)
(* account of a registration that got past its insert is in the table, and *)
(* on disk once its commit is done, which is before anything is answered;  *)
(* the login rows a logout was to remove are gone, or have run out; a      *)
(* browser's cookie never outlives its row's request, so no row is written *)
(* again under an id somebody has logged out.                              *)
(***************************************************************************)
Account(r) == [id |-> r, email |-> visit[r].email, password |-> visit[r].password]

Registers(r) ==
    visit[r].kind = "register" =>
       /\ visit[r].pc \in {"saveUser", "open", "saveLogin", "welcome"} => Account(r) \in db.users
       /\ visit[r].pc \in {"open", "saveLogin", "welcome"} => Account(r) \in disk.users

KindOf(r) ==
    /\ visit[r].pc \in {"hash", "saveUser"} => visit[r].kind = "register"
    /\ visit[r].pc \in {"find", "verify"} => visit[r].kind = "login"
    /\ visit[r].pc \in {"open", "saveLogin"} =>
          visit[r].kind \in {"register", "login"} /\ visit[r].until =< now + SessionTTL
    /\ visit[r].pc \in {"unlogin", "saveOut"} => visit[r].kind = "logout" /\ visit[r].cookie # None
    /\ visit[r].pc \in {"resolve", "who"} => visit[r].kind \in {"query", "clear"} /\ visit[r].cookie # None

Carries(r) == visit[r].cookie # None => visit[r].cookie \in jar /\ visit[r].kind \notin {"register", "login"}

TooLate(r) ==
    visit[r].late =>
       visit[r].cookie # None /\ visit[r].cookie.id \in LoggedOut /\ visit[r].user = None /\ visit[r].pc # "who"

Removed(r) == visit[r].pc = "saveOut" => \A l \in db.logins : l.id # visit[r].cookie.id

Acts(r) == Registers(r) /\ KindOf(r) /\ Carries(r) /\ TooLate(r) /\ Removed(r)

UsersOk ==
    /\ disk.users \subseteq db.users
    /\ \A u, w \in db.users : u.email = w.email => u = w

JarOk == \A c \in jar : c.id = Old \/ visit[c.id].pc = "welcome"

LoginOk(l) ==
    /\ l.until =< now + SessionTTL
    /\ \A c \in jar : c.id = l.id => l.until =< c.issued + SessionTTL
    /\ l.id \in LoggedOut => l.until =< now

AccInv ==
    /\ \A r \in Requests : Acts(r)
    /\ UsersOk /\ JarOk
    /\ \A l \in db.logins \cup disk.logins : LoginOk(l)

\* Only the request that moves can add to the logins that were answered as ended.
LEMMA LoggedOutGrows ==
    ASSUME NEW r \in Requests, NEW w, visit' = [visit EXCEPT ![r] = w], visit \in [Requests -> A!Visits],
           visit[r].pc # "out"
    PROVE  /\ LoggedOut \subseteq LoggedOut'
           /\ \A i \in LoggedOut' : i \in LoggedOut \/ (w.kind = "logout" /\ w.pc = "out" /\ w.cookie # None /\ i = w.cookie.id)
<1>1. visit'[r] = w /\ \A q \in Requests \ {r} : visit'[q] = visit[q]  OBVIOUS
<1>2. LoggedOut \subseteq LoggedOut'  BY <1>1 DEF LoggedOut
<1>3. ASSUME NEW i \in LoggedOut'
      PROVE  i \in LoggedOut \/ (w.kind = "logout" /\ w.pc = "out" /\ w.cookie # None /\ i = w.cookie.id)
  <2>1. PICK q \in Requests : /\ visit'[q].kind = "logout" /\ visit'[q].pc = "out" /\ visit'[q].cookie # None
                              /\ i = visit'[q].cookie.id
    BY <1>3 DEF LoggedOut
  <2>2. CASE q = r  BY <1>1, <2>1, <2>2
  <2>3. CASE q # r  BY <1>1, <2>1, <2>3 DEF LoggedOut
  <2>4. QED  BY <2>2, <2>3
<1>4. QED  BY <1>2, <1>3

\* When one request moves, what the others rely on stays.
LEMMA OthersAct ==
    ASSUME AccInv, NEW r \in Requests, NEW w, visit' = [visit EXCEPT ![r] = w], visit \in [Requests -> A!Visits],
           jar \subseteq [id : A!Owners, issued : Nat], visit[r].pc \notin {"out", "welcome"}, now' = now,
           db.users \subseteq db'.users, disk.users \subseteq disk'.users, jar \subseteq jar',
           \A l \in db'.logins : l \in db.logins \/ (l.id = r /\ visit[r].pc = "open")
    PROVE  /\ \A q \in Requests \ {r} : Acts(q)'
           /\ \A c \in jar : c.id = Old \/ visit'[c.id].pc = "welcome"
<1>0. LoggedOut \subseteq LoggedOut'  BY LoggedOutGrows
<1>1. visit'[r] = w /\ \A q \in Requests \ {r} : visit'[q] = visit[q]  OBVIOUS
<1>2. ASSUME NEW q \in Requests \ {r} PROVE Acts(q)'
  <2>1. Acts(q) /\ visit'[q] = visit[q]  BY <1>1 DEF AccInv
  <2>2. Registers(q)'  BY <2>1 DEF Acts, Registers, Account
  <2>3. KindOf(q)' /\ Carries(q)'  BY <2>1 DEF Acts, KindOf, Carries
  <2>4. TooLate(q)'  BY <1>0, <2>1 DEF Acts, TooLate
  <2>5. Removed(q)'
    <3> SUFFICES ASSUME visit[q].pc = "saveOut", NEW l \in db'.logins PROVE l.id # visit[q].cookie.id
      BY <2>1 DEF Removed
    <3>1. CASE l \in db.logins  BY <2>1, <3>1 DEF Acts, Removed
    <3>2. CASE l.id = r /\ visit[r].pc = "open"
      <4>1. visit[q].cookie \in jar  BY <2>1 DEF Acts, KindOf, Carries
      <4>2. visit[q].cookie.id = Old \/ visit[visit[q].cookie.id].pc = "welcome"
        BY <4>1 DEF AccInv, JarOk
      <4>3. QED  BY <3>2, <4>2, GateConstants
    <3>3. QED  BY <3>1, <3>2
  <2>6. QED  BY <2>2, <2>3, <2>4, <2>5 DEF Acts
<1>3. ASSUME NEW c \in jar PROVE c.id = Old \/ visit'[c.id].pc = "welcome"
  <2>1. c.id = Old \/ visit[c.id].pc = "welcome"  BY DEF AccInv, JarOk
  <2>2. c.id \in Requests \cup {Old}  BY DEF A!Owners
  <2>3. QED  BY <1>1, <2>1, <2>2
<1>4. QED  BY <1>2, <1>3

\* What a request came with
SameRequest(w, v) ==
    /\ w.kind = v.kind /\ w.cookie = v.cookie /\ w.email = v.email /\ w.password = v.password
    /\ w.late = v.late

Moves(r, w) == visit' = [visit EXCEPT ![r] = w] /\ SameRequest(w, visit[r])

LEMMA GoMoves ==
    ASSUME AccountsType, NEW r \in Requests, NEW p, A!Go(r, p)
    PROVE  \E w : Moves(r, w) /\ w.pc = p /\ w.user = visit[r].user /\ w.until = visit[r].until
<1>1. visit[r] \in A!Visits  BY DEF AccountsType, A!AccountsTypeOK
<1>2. visit' = [visit EXCEPT ![r] = [visit[r] EXCEPT !.pc = p]]  BY DEF A!Go
<1> DEFINE w == [visit[r] EXCEPT !.pc = p]
<1>3. SameRequest(w, visit[r]) /\ w.pc = p /\ w.user = visit[r].user /\ w.until = visit[r].until
  BY <1>1 DEF SameRequest, A!Visits
<1> HIDE DEF w
<1>4. QED  BY <1>2, <1>3 DEF Moves, w

UserGo(r, p, u) == visit' = [visit EXCEPT ![r].pc = p, ![r].user = u]

LEMMA UserMoves ==
    ASSUME AccountsType, NEW r \in Requests, NEW p, NEW u, UserGo(r, p, u)
    PROVE  \E w : Moves(r, w) /\ w.pc = p /\ w.user = u /\ w.until = visit[r].until
<1>1. visit[r] \in A!Visits  BY DEF AccountsType, A!AccountsTypeOK
<1> DEFINE w == [visit[r] EXCEPT !.pc = p, !.user = u]
<1>2. visit' = [visit EXCEPT ![r] = w]  BY DEF UserGo
<1>3. SameRequest(w, visit[r]) /\ w.pc = p /\ w.user = u /\ w.until = visit[r].until
  BY <1>1 DEF SameRequest, A!Visits
<1> HIDE DEF w
<1>4. QED  BY <1>2, <1>3 DEF Moves

LEMMA OpenMoves ==
    ASSUME AccountsType, NEW r \in Requests, NEW u, A!OpenFor(r, u)
    PROVE  \E w : Moves(r, w) /\ w.pc = "open" /\ w.user = u /\ w.until = now + SessionTTL
<1>1. visit[r] \in A!Visits  BY DEF AccountsType, A!AccountsTypeOK
<1> DEFINE w == [visit[r] EXCEPT !.pc = "open", !.user = u, !.until = now + SessionTTL]
<1>2. visit' = [visit EXCEPT ![r] = w]  BY DEF A!OpenFor
<1>3. SameRequest(w, visit[r]) /\ w.pc = "open" /\ w.user = u /\ w.until = now + SessionTTL
  BY <1>1 DEF SameRequest, A!Visits
<1> HIDE DEF w
<1>4. QED  BY <1>2, <1>3 DEF Moves

\* Rows that were there stay in order while nobody's logout is answered.
LEMMA LoginsKept ==
    ASSUME AccInv, AccountsType, now \in Nat, now' \in {now, now + 1}, jar' \subseteq jar, LoggedOut' \subseteq LoggedOut,
           db'.logins \cup disk'.logins \subseteq db.logins \cup disk.logins
    PROVE  \A l \in (db.logins \cup disk.logins)' : LoginOk(l)'
<1> SUFFICES ASSUME NEW l \in db'.logins \cup disk'.logins PROVE LoginOk(l)'
  OBVIOUS
<1>1. LoginOk(l) /\ l.until \in Nat
  BY DEF AccInv, AccountsType, A!AccountsTypeOK, A!Tables, A!LoginRows
<1>2. l.until =< now' + SessionTTL  BY <1>1, GateConstants DEF LoginOk
<1>3. \A c \in jar' : c.id = l.id => l.until =< c.issued + SessionTTL  BY <1>1 DEF LoginOk
<1>4. l.id \in LoggedOut' => l.until =< now'  BY <1>1 DEF LoginOk
<1>5. QED  BY <1>2, <1>3, <1>4 DEF LoginOk

\* A request that moves without answering a logout or a login
LEMMA MoveStep ==
    ASSUME AccInv, AccountsType, now \in Nat, now' = now, NEW r \in Requests, NEW w, Moves(r, w),
           visit[r].pc \notin {"out", "welcome"}, w.pc # "out" \/ w.cookie = None, Acts(r)',
           db.users \subseteq db'.users, disk.users \subseteq disk'.users, jar' = jar, UsersOk',
           db'.logins \cup disk'.logins \subseteq db.logins \cup disk.logins,
           db'.logins \subseteq db.logins
    PROVE  AccInv'
<1>1. visit \in [Requests -> A!Visits] /\ jar \subseteq [id : A!Owners, issued : Nat]
  BY DEF AccountsType, A!AccountsTypeOK
<1>2. visit' = [visit EXCEPT ![r] = w]  BY DEF Moves
<1>3. /\ \A q \in Requests \ {r} : Acts(q)'
      /\ \A c \in jar : c.id = Old \/ visit'[c.id].pc = "welcome"
  BY <1>1, <1>2, OthersAct
<1>4. LoggedOut' \subseteq LoggedOut  BY <1>1, <1>2, LoggedOutGrows
<1>5. \A l \in (db.logins \cup disk.logins)' : LoginOk(l)'  BY <1>4, LoginsKept
<1>6. JarOk'  BY <1>3 DEF JarOk
<1>7. QED  BY <1>3, <1>5, <1>6 DEF AccInv

LEMMA TypedAccounts ==
    ASSUME AccountsType
    PROVE  /\ visit \in [Requests -> A!Visits] /\ db \in A!Tables /\ disk \in A!Tables
           /\ jar \subseteq [id : A!Owners, issued : Nat]
BY DEF AccountsType, A!AccountsTypeOK

\* A registration writes its account, unless its email is taken.
LEMMA CreateUserAcc ==
    ASSUME AccInv, AccountsType, now \in Nat, UNCHANGED now, NEW r \in Requests, A!CreateUser(r)
    PROVE  AccInv'
<1> DEFINE v == visit[r]
<1>0. v.pc = "hash" /\ v.kind = "register" /\ Acts(r) /\ UNCHANGED <<disk, jar>>
  BY DEF A!CreateUser, AccInv, Acts, KindOf
<1>1. visit \in [Requests -> A!Visits] /\ db \in A!Tables  BY TypedAccounts
<1>2. CASE A!Taken(v.email)
  <2>1. A!Go(r, "conflict") /\ UNCHANGED db  BY <1>2 DEF A!CreateUser
  <2>2. PICK w : Moves(r, w) /\ w.pc = "conflict" /\ w.user = v.user  BY <2>1, GoMoves
  <2>3. visit'[r] = w /\ visit' = [visit EXCEPT ![r] = w] /\ SameRequest(w, v)  BY <1>1, <2>2 DEF Moves
  <2>4. LoggedOut \subseteq LoggedOut'  BY <1>0, <1>1, <2>3, LoggedOutGrows
  <2>5. Acts(r)'
    BY <1>0, <2>1, <2>2, <2>3, <2>4
    DEF Acts, Registers, KindOf, Carries, TooLate, Removed, SameRequest
  <2>6. UsersOk'  BY <1>0, <2>1 DEF AccInv, UsersOk
  <2>7. QED  BY <1>0, <2>1, <2>2, <2>5, <2>6, MoveStep
<1>3. CASE ~A!Taken(v.email)
  <2>1. A!Go(r, "saveUser") /\ db' = [db EXCEPT !.users = @ \cup {Account(r)}]
    BY <1>3 DEF A!CreateUser, Account
  <2>2. PICK w : Moves(r, w) /\ w.pc = "saveUser" /\ w.user = v.user  BY <2>1, GoMoves
  <2>3. visit'[r] = w /\ visit' = [visit EXCEPT ![r] = w] /\ SameRequest(w, v)  BY <1>1, <2>2 DEF Moves
  <2>4. LoggedOut \subseteq LoggedOut'  BY <1>0, <1>1, <2>3, LoggedOutGrows
  <2>5. db'.users = db.users \cup {Account(r)} /\ db'.logins = db.logins  BY <1>1, <2>1 DEF A!Tables
  <2>6. Account(r)' = Account(r)  BY <2>3 DEF Account, SameRequest
  <2>7. Acts(r)'
    <3>1. Registers(r)'  BY <2>2, <2>3, <2>5, <2>6 DEF Registers
    <3>2. KindOf(r)' /\ Carries(r)' /\ TooLate(r)' /\ Removed(r)'
      BY <1>0, <2>2, <2>3, <2>4 DEF Acts, KindOf, Carries, TooLate, Removed, SameRequest
    <3>3. QED  BY <3>1, <3>2 DEF Acts
  <2>8. UsersOk'
    <3>1. \A u \in db.users : u.email # Account(r).email  BY <1>3 DEF A!Taken, Account
    <3>2. QED  BY <1>0, <2>5, <3>1 DEF AccInv, UsersOk
  <2>9. QED  BY <1>0, <2>2, <2>5, <2>7, <2>8, MoveStep
<1>4. QED  BY <1>2, <1>3

\* A commit puts on disk what the connection has.
LEMMA SaveUserAcc ==
    ASSUME AccInv, AccountsType, now \in Nat, UNCHANGED now, NEW r \in Requests, A!SaveUser(r)
    PROVE  AccInv'
<1> DEFINE v == visit[r]
<1>0. /\ v.pc = "saveUser" /\ v.kind = "register" /\ Acts(r) /\ UNCHANGED <<db, jar>> /\ disk' = db
      /\ A!OpenFor(r, r) /\ Account(r) \in db.users
  BY DEF A!SaveUser, A!Commit, AccInv, Acts, KindOf, Registers
<1>1. visit \in [Requests -> A!Visits]  BY TypedAccounts
<1>2. PICK w : Moves(r, w) /\ w.pc = "open" /\ w.user = r /\ w.until = now + SessionTTL  BY <1>0, OpenMoves
<1>3. visit'[r] = w /\ visit' = [visit EXCEPT ![r] = w] /\ SameRequest(w, v)  BY <1>1, <1>2 DEF Moves
<1>4. Account(r)' = Account(r)  BY <1>3 DEF Account, SameRequest
<1>5. ~v.late  BY <1>0 DEF Acts, Carries, TooLate
<1>6. w.until =< now' + SessionTTL  BY <1>2, GateConstants
<1>7. Acts(r)'
  <2>1. Registers(r)'  BY <1>0, <1>4 DEF Registers
  <2>2. KindOf(r)'  BY <1>0, <1>2, <1>3, <1>6 DEF KindOf, SameRequest
  <2>3. Carries(r)' /\ TooLate(r)' /\ Removed(r)'
    BY <1>0, <1>2, <1>3, <1>5 DEF Acts, Carries, TooLate, Removed, SameRequest
  <2>4. QED  BY <2>1, <2>2, <2>3 DEF Acts
<1>8. UsersOk' /\ disk.users \subseteq disk'.users  BY <1>0 DEF AccInv, UsersOk
<1>9. QED  BY <1>0, <1>2, <1>7, <1>8, MoveStep

\* A login's row is new: no cookie carries its id yet, so nobody has logged it out.
LEMMA OpenLoginAcc ==
    ASSUME AccInv, AccountsType, now \in Nat, UNCHANGED now, NEW r \in Requests, A!OpenLogin(r)
    PROVE  AccInv'
<1> DEFINE v == visit[r]
<1>. PICK row : row = [id |-> r, user |-> v.user, until |-> v.until]  OBVIOUS
<1>0. /\ v.pc = "open" /\ v.kind \in {"register", "login"} /\ v.until =< now + SessionTTL /\ Acts(r)
      /\ UNCHANGED <<disk, jar>> /\ A!Go(r, "saveLogin")
      /\ db' = [db EXCEPT !.logins = @ \cup {row}]
  BY DEF A!OpenLogin, AccInv, Acts, KindOf
<1>1. /\ visit \in [Requests -> A!Visits] /\ db \in A!Tables /\ jar \subseteq [id : A!Owners, issued : Nat]
  BY TypedAccounts
<1>2. PICK w : Moves(r, w) /\ w.pc = "saveLogin" /\ w.user = v.user /\ w.until = v.until  BY <1>0, GoMoves
<1>3. visit'[r] = w /\ visit' = [visit EXCEPT ![r] = w] /\ SameRequest(w, v)  BY <1>1, <1>2 DEF Moves
<1>4. db'.users = db.users /\ db'.logins = db.logins \cup {row} /\ row.id = r /\ row.until = v.until
  BY <1>0, <1>1 DEF A!Tables
<1>5. /\ \A q \in Requests \ {r} : Acts(q)'
      /\ \A c \in jar : c.id = Old \/ visit'[c.id].pc = "welcome"
  BY <1>0, <1>1, <1>3, <1>4, OthersAct
<1>6. LoggedOut' = LoggedOut  BY <1>0, <1>1, <1>2, <1>3, LoggedOutGrows
<1>7. Acts(r)'
  <2>1. Account(r)' = Account(r)  BY <1>3 DEF Account, SameRequest
  <2>2. Registers(r)'  BY <1>0, <1>2, <1>3, <1>4, <2>1 DEF Acts, Registers, SameRequest
  <2>3. KindOf(r)' /\ Carries(r)' /\ TooLate(r)' /\ Removed(r)'
    BY <1>0, <1>2, <1>3, <1>6 DEF Acts, KindOf, Carries, TooLate, Removed, SameRequest
  <2>4. QED  BY <2>2, <2>3 DEF Acts
<1>8. UsersOk' /\ JarOk'  BY <1>0, <1>4, <1>5 DEF AccInv, UsersOk, JarOk
<1>9. \A c \in jar : c.id # r
  <2> SUFFICES ASSUME NEW c \in jar, c.id = r PROVE FALSE  OBVIOUS
  <2>1. c.id = Old \/ visit[c.id].pc = "welcome"  BY DEF AccInv, JarOk
  <2>2. QED  BY <1>0, <2>1, GateConstants
<1>10. r \notin LoggedOut
  <2> SUFFICES ASSUME NEW q \in Requests, visit[q].cookie # None, visit[q].cookie.id = r PROVE FALSE
    BY DEF LoggedOut
  <2>1. visit[q].cookie \in jar  BY DEF AccInv, Acts, Carries
  <2>2. QED  BY <1>9, <2>1
<1>11. LoginOk(row)'
  <2>1. row.until =< now' + SessionTTL  BY <1>0, <1>4
  <2>2. \A c \in jar' : c.id # row.id  BY <1>0, <1>4, <1>9
  <2>3. row.id \notin LoggedOut'  BY <1>4, <1>6, <1>10
  <2>4. QED  BY <2>1, <2>2, <2>3 DEF LoginOk
<1>12. \A l \in db.logins \cup disk.logins : LoginOk(l)'  BY <1>0, <1>6 DEF AccInv, LoginOk
<1>13. \A l \in (db.logins \cup disk.logins)' : LoginOk(l)'  BY <1>0, <1>4, <1>11, <1>12
<1>14. QED  BY <1>5, <1>7, <1>8, <1>13 DEF AccInv

\* The cookie is issued no earlier than its row's deadline was set.
LEMMA SaveLoginAcc ==
    ASSUME AccInv, AccountsType, now \in Nat, UNCHANGED now, NEW r \in Requests, A!SaveLogin(r)
    PROVE  AccInv'
<1> DEFINE v == visit[r]
           c0 == [id |-> r, issued |-> now]
<1>0. /\ v.pc = "saveLogin" /\ v.kind \in {"register", "login"} /\ Acts(r)
      /\ UNCHANGED db /\ disk' = db /\ jar' = jar \cup {c0} /\ A!Go(r, "welcome")
  BY DEF A!SaveLogin, A!Commit, AccInv, Acts, KindOf
<1>1. /\ visit \in [Requests -> A!Visits] /\ jar \subseteq [id : A!Owners, issued : Nat]
  BY TypedAccounts
<1>2. PICK w : Moves(r, w) /\ w.pc = "welcome" /\ w.user = v.user  BY <1>0, GoMoves
<1>3. visit'[r] = w /\ visit' = [visit EXCEPT ![r] = w] /\ SameRequest(w, v)  BY <1>1, <1>2 DEF Moves
<1>4. disk.users \subseteq disk'.users /\ UsersOk'  BY <1>0 DEF AccInv, UsersOk
<1>5. c0.id = r /\ c0.issued = now  OBVIOUS
<1> HIDE DEF c0
<1>6. /\ \A q \in Requests \ {r} : Acts(q)'
      /\ \A c \in jar : c.id = Old \/ visit'[c.id].pc = "welcome"
  BY <1>0, <1>1, <1>3, <1>4, OthersAct
<1>7. LoggedOut' = LoggedOut  BY <1>0, <1>1, <1>2, <1>3, LoggedOutGrows
<1>8. Acts(r)'
  <2>1. Account(r)' = Account(r)  BY <1>3 DEF Account, SameRequest
  <2>2. Registers(r)'  BY <1>0, <1>2, <1>3, <1>4, <2>1 DEF Acts, Registers, SameRequest
  <2>3. KindOf(r)' /\ Carries(r)' /\ TooLate(r)' /\ Removed(r)'
    BY <1>0, <1>2, <1>3, <1>7 DEF Acts, KindOf, Carries, TooLate, Removed, SameRequest
  <2>4. QED  BY <2>2, <2>3 DEF Acts
<1>9. JarOk'  BY <1>0, <1>2, <1>3, <1>5, <1>6 DEF JarOk
<1>10. ASSUME NEW l \in db.logins PROVE LoginOk(l)'
  <2>1. LoginOk(l)  BY DEF AccInv
  <2>2. \A c \in jar' : c.id = l.id => l.until =< c.issued + SessionTTL
    BY <1>0, <1>5, <2>1 DEF LoginOk
  <2>3. QED  BY <1>7, <2>1, <2>2 DEF LoginOk
<1>11. QED  BY <1>0, <1>4, <1>6, <1>8, <1>9, <1>10 DEF AccInv

LEMMA FindUserAcc ==
    ASSUME AccInv, AccountsType, now \in Nat, UNCHANGED now, NEW r \in Requests, A!FindUser(r)
    PROVE  AccInv'
<1> DEFINE v == visit[r]
<1>0. /\ v.pc = "find" /\ v.kind = "login" /\ Acts(r) /\ UNCHANGED <<db, disk, jar>> /\ ~v.late
  BY DEF A!FindUser, A!Reads, AccInv, Acts, KindOf, Carries, TooLate
<1>1. visit \in [Requests -> A!Visits]  BY TypedAccounts
<1>2. PICK w : Moves(r, w) /\ w.pc = "verify"
  <2>1. CASE A!Go(r, "verify")  BY <2>1, GoMoves
  <2>2. CASE ~A!Go(r, "verify")
    <3>1. PICK u : visit' = [visit EXCEPT ![r].pc = "verify", ![r].user = u.id]  BY <2>2 DEF A!FindUser
    <3>2. PICK i : i = u.id  OBVIOUS
    <3>3. UserGo(r, "verify", i)  BY <3>1, <3>2 DEF UserGo
    <3>4. \E w : Moves(r, w) /\ w.pc = "verify" /\ w.user = i /\ w.until = visit[r].until  BY <3>3, UserMoves
    <3>5. QED  BY <3>4
  <2>3. QED  BY <2>1, <2>2
<1>3. visit'[r] = w /\ SameRequest(w, v)  BY <1>1, <1>2 DEF Moves
<1>4. Acts(r)'
  BY <1>0, <1>2, <1>3 DEF Acts, Registers, KindOf, Carries, TooLate, Removed, SameRequest
<1>5. UsersOk'  BY <1>0 DEF AccInv, UsersOk
<1>6. QED  BY <1>0, <1>2, <1>4, <1>5, MoveStep

LEMMA VerifyAcc ==
    ASSUME AccInv, AccountsType, now \in Nat, UNCHANGED now, NEW r \in Requests, A!Verify(r)
    PROVE  AccInv'
<1> DEFINE v == visit[r]
<1>0. /\ v.pc = "verify" /\ v.kind = "login" /\ Acts(r) /\ UNCHANGED <<db, disk, jar>> /\ ~v.late
      /\ A!OpenFor(r, v.user) \/ A!Go(r, "denied")
  BY DEF A!Verify, A!Reads, AccInv, Acts, KindOf, Carries, TooLate
<1>1. visit \in [Requests -> A!Visits]  BY TypedAccounts
<1>2. PICK w : Moves(r, w) /\ (w.pc = "denied" \/ (w.pc = "open" /\ w.until = now + SessionTTL))
  BY <1>0, GoMoves, OpenMoves
<1>3. visit'[r] = w /\ SameRequest(w, v)  BY <1>1, <1>2 DEF Moves
<1>4. now + SessionTTL =< now' + SessionTTL  BY GateConstants
<1>5. Acts(r)'
  BY <1>0, <1>2, <1>3, <1>4 DEF Acts, Registers, KindOf, Carries, TooLate, Removed, SameRequest
<1>6. UsersOk'  BY <1>0 DEF AccInv, UsersOk
<1>7. QED  BY <1>0, <1>2, <1>5, <1>6, MoveStep

LEMMA DropLoginAcc ==
    ASSUME AccInv, AccountsType, now \in Nat, UNCHANGED now, NEW r \in Requests, A!DropLogin(r)
    PROVE  AccInv'
<1> DEFINE v == visit[r]
<1>0. /\ v.pc = "unlogin" /\ v.kind = "logout" /\ v.cookie # None /\ Acts(r) /\ UNCHANGED <<disk, jar>>
      /\ A!Go(r, "saveOut") /\ db' = [db EXCEPT !.logins = {l \in @ : l.id # v.cookie.id}]
  BY DEF A!DropLogin, A!Ends, AccInv, Acts, KindOf
<1>1. visit \in [Requests -> A!Visits] /\ db \in A!Tables  BY TypedAccounts
<1>2. PICK w : Moves(r, w) /\ w.pc = "saveOut" /\ w.user = v.user  BY <1>0, GoMoves
<1>3. visit'[r] = w /\ visit' = [visit EXCEPT ![r] = w] /\ SameRequest(w, v)  BY <1>1, <1>2 DEF Moves
<1>4. db'.users = db.users /\ db'.logins = {l \in db.logins : l.id # v.cookie.id}
  BY <1>0, <1>1 DEF A!Tables
<1>5. LoggedOut \subseteq LoggedOut'  BY <1>0, <1>1, <1>3, LoggedOutGrows
<1>6. Acts(r)'
  BY <1>0, <1>2, <1>3, <1>4, <1>5
  DEF Acts, Registers, KindOf, Carries, TooLate, Removed, SameRequest
<1>7. UsersOk'  BY <1>0, <1>4 DEF AccInv, UsersOk
<1>8. QED  BY <1>0, <1>2, <1>4, <1>6, <1>7, MoveStep

\* When a logout is answered, its row is gone from the connection and the disk.
LEMMA SaveOutAcc ==
    ASSUME AccInv, AccountsType, now \in Nat, UNCHANGED now, NEW r \in Requests, A!SaveOut(r)
    PROVE  AccInv'
<1> DEFINE v == visit[r]
<1>0. /\ v.pc = "saveOut" /\ v.kind = "logout" /\ v.cookie # None /\ Acts(r)
      /\ UNCHANGED <<db, jar>> /\ disk' = db /\ A!Go(r, "out")
      /\ \A l \in db.logins : l.id # v.cookie.id
  BY DEF A!SaveOut, A!Commit, AccInv, Acts, KindOf, Removed
<1>1. visit \in [Requests -> A!Visits] /\ jar \subseteq [id : A!Owners, issued : Nat]  BY TypedAccounts
<1>2. PICK w : Moves(r, w) /\ w.pc = "out" /\ w.user = v.user  BY <1>0, GoMoves
<1>3. visit'[r] = w /\ visit' = [visit EXCEPT ![r] = w] /\ SameRequest(w, v)  BY <1>1, <1>2 DEF Moves
<1>4. disk.users \subseteq disk'.users /\ UsersOk'  BY <1>0 DEF AccInv, UsersOk
<1>5. /\ \A q \in Requests \ {r} : Acts(q)'
      /\ \A c \in jar : c.id = Old \/ visit'[c.id].pc = "welcome"
  BY <1>0, <1>1, <1>3, <1>4, OthersAct
<1>6. LoggedOut \subseteq LoggedOut' /\ \A i \in LoggedOut' : i \in LoggedOut \/ i = v.cookie.id
  <2>1. /\ LoggedOut \subseteq LoggedOut'
        /\ \A i \in LoggedOut' : i \in LoggedOut \/ (w.kind = "logout" /\ w.pc = "out" /\ w.cookie # None /\ i = w.cookie.id)
    BY <1>0, <1>1, <1>3, LoggedOutGrows
  <2>2. w.cookie = v.cookie  BY <1>3 DEF SameRequest
  <2>3. QED  BY <2>1, <2>2
<1>7. Acts(r)'
  BY <1>0, <1>2, <1>3, <1>6 DEF Acts, Registers, KindOf, Carries, TooLate, Removed, SameRequest
<1>8. JarOk'  BY <1>0, <1>5 DEF JarOk
<1>9. ASSUME NEW l \in db.logins PROVE LoginOk(l)'
  <2>1. LoginOk(l) /\ l.id # v.cookie.id  BY <1>0 DEF AccInv
  <2>2. QED  BY <1>0, <1>6, <2>1 DEF LoginOk
<1>10. QED  BY <1>0, <1>4, <1>5, <1>7, <1>8, <1>9 DEF AccInv

\* A cookie that was logged out finds no login that still runs.
LEMMA ResolveAcc ==
    ASSUME AccInv, AccountsType, now \in Nat, UNCHANGED now, NEW r \in Requests, A!Resolve(r)
    PROVE  AccInv'
<1> DEFINE v == visit[r]
<1>0. /\ v.pc = "resolve" /\ v.kind \in {"query", "clear"} /\ v.cookie # None /\ Acts(r)
      /\ UNCHANGED <<db, disk, jar>>
  BY DEF A!Resolve, A!Reads, AccInv, Acts, KindOf
<1>1. visit \in [Requests -> A!Visits] /\ db \in A!Tables  BY TypedAccounts
<1>2. PICK w : Moves(r, w) /\ \/ w.pc = "in" /\ w.user = v.user
                              \/ w.pc = "who" /\ ~v.late
  <2>1. CASE A!Go(r, "in")  BY <2>1, GoMoves
  <2>2. CASE ~A!Go(r, "in")
    <3>1. PICK l \in A!LiveLogin(v.cookie) : visit' = [visit EXCEPT ![r].pc = "who", ![r].user = l.user]
      BY <2>2 DEF A!Resolve
    <3>2. l \in db.logins /\ l.id = v.cookie.id /\ l.until > now /\ l.until \in Nat
      BY <1>1, <3>1 DEF A!LiveLogin, A!Tables, A!LoginRows
    <3>3. l.id \notin LoggedOut  BY <3>2 DEF AccInv, LoginOk
    <3>4. ~v.late  BY <1>0, <3>2, <3>3 DEF Acts, TooLate
    <3>5. PICK i : i = l.user  OBVIOUS
    <3>6. UserGo(r, "who", i)  BY <3>1, <3>5 DEF UserGo
    <3>7. \E w : Moves(r, w) /\ w.pc = "who" /\ w.user = i /\ w.until = visit[r].until  BY <3>6, UserMoves
    <3>8. QED  BY <3>4, <3>7
  <2>3. QED  BY <2>1, <2>2
<1>3. visit'[r] = w /\ visit' = [visit EXCEPT ![r] = w] /\ SameRequest(w, v)  BY <1>1, <1>2 DEF Moves
<1>4. LoggedOut \subseteq LoggedOut'  BY <1>0, <1>1, <1>3, LoggedOutGrows
<1>5. Acts(r)'
  BY <1>0, <1>2, <1>3, <1>4 DEF Acts, Registers, KindOf, Carries, TooLate, Removed, SameRequest
<1>6. UsersOk'  BY <1>0 DEF AccInv, UsersOk
<1>7. QED  BY <1>0, <1>2, <1>5, <1>6, MoveStep

LEMMA LoadUserAcc ==
    ASSUME AccInv, AccountsType, now \in Nat, UNCHANGED now, NEW r \in Requests, A!LoadUser(r)
    PROVE  AccInv'
<1> DEFINE v == visit[r]
<1>0. /\ v.pc = "who" /\ v.kind \in {"query", "clear"} /\ Acts(r) /\ UNCHANGED <<db, disk, jar>> /\ ~v.late
  BY DEF A!LoadUser, A!Reads, AccInv, Acts, KindOf, TooLate
<1>1. visit \in [Requests -> A!Visits]  BY TypedAccounts
<1>2. PICK w : Moves(r, w) /\ w.pc = "in"
  <2>1. PICK u : u = IF \E x \in db.users : x.id = v.user THEN v.user ELSE None  OBVIOUS
  <2>2. UserGo(r, "in", u)  BY <2>1 DEF UserGo, A!LoadUser
  <2>3. QED  BY <2>2, UserMoves
<1>3. visit'[r] = w /\ SameRequest(w, v)  BY <1>1, <1>2 DEF Moves
<1>4. Acts(r)'
  BY <1>0, <1>2, <1>3 DEF Acts, Registers, KindOf, Carries, TooLate, Removed, SameRequest
<1>5. UsersOk'  BY <1>0 DEF AccInv, UsersOk
<1>6. QED  BY <1>0, <1>2, <1>4, <1>5, MoveStep

\* Nobody moves; rows at most go, and what is on disk may catch up.
LEMMA AccountsQuiet ==
    ASSUME AccInv, AccountsType, now \in Nat, now' \in {now, now + 1}, UNCHANGED <<jar, visit>>,
           db'.users = db.users, disk.users \subseteq disk'.users, disk'.users \subseteq db'.users,
           db'.logins \subseteq db.logins, disk'.logins \subseteq db.logins \cup disk.logins
    PROVE  AccInv'
<1>1. LoggedOut' = LoggedOut  BY DEF LoggedOut
<1>2. \A l \in (db.logins \cup disk.logins)' : LoginOk(l)'  BY <1>1, LoginsKept
<1>3. ASSUME NEW r \in Requests PROVE Acts(r)'
  <2>1. Acts(r) /\ visit[r].until \in Nat  BY TypedAccounts DEF AccInv, A!Visits
  <2>2. visit[r].until =< now + SessionTTL => visit[r].until =< now' + SessionTTL  BY <2>1, GateConstants
  <2>3. Registers(r)'  BY <2>1 DEF Acts, Registers, Account
  <2>4. KindOf(r)'  BY <2>1, <2>2 DEF Acts, KindOf
  <2>5. Carries(r)' /\ TooLate(r)' /\ Removed(r)'  BY <1>1, <2>1 DEF Acts, Carries, TooLate, Removed
  <2>6. QED  BY <2>3, <2>4, <2>5 DEF Acts
<1>4. UsersOk' /\ JarOk'  BY DEF AccInv, UsersOk, JarOk
<1>5. QED  BY <1>2, <1>3, <1>4 DEF AccInv

LEMMA StartUpAcc == ASSUME AccInv, AccountsType, now \in Nat, StartUp PROVE AccInv'
<1>1. now' = now /\ UNCHANGED <<jar, visit>>
  BY DEF StartUp, Start, NextMigration, RunStatement, Record, Ready, A!CleanUp
<1>2. db \in A!Tables /\ disk.users \subseteq db.users  BY TypedAccounts DEF AccInv, UsersOk
<1>3. CASE UNCHANGED <<db, disk>>  BY <1>1, <1>2, <1>3, AccountsQuiet
<1>4. CASE A!CleanUp
  <2>1. /\ db'.users = db.users /\ db'.logins = {l \in db.logins : l.until > now} /\ disk' = db'
    BY <1>2, <1>4 DEF A!CleanUp, A!Tables
  <2>2. QED  BY <1>1, <1>2, <2>1, AccountsQuiet
<1>5. QED  BY <1>3, <1>4 DEF StartUp, Start, NextMigration, RunStatement, Record, Ready

\* A logout that is answered at once comes with a cookie that has run out, and
\* its row with it.
LEMMA ArriveAcc ==
    ASSUME AccInv, AccountsType, now \in Nat, crashes \in Nat, NEW r \in Requests, Client(r)
    PROVE  AccInv'
<1>1. /\ visit[r].pc = "new" /\ now' = now /\ UNCHANGED <<db, disk, jar>>
      /\ \E w \in A!Visits : visit' = [visit EXCEPT ![r] = w] /\ Arrived(r, w) /\ Metered(r, w)
  BY ClientStep
<1>2. PICK w \in A!Visits : visit' = [visit EXCEPT ![r] = w] /\ Arrived(r, w)  BY <1>1
<1>3. visit \in [Requests -> A!Visits] /\ jar \subseteq [id : A!Owners, issued : Nat]  BY TypedAccounts
<1>4. visit'[r] = w  BY <1>2, <1>3
<1>5. /\ \A q \in Requests \ {r} : Acts(q)'
      /\ \A c \in jar : c.id = Old \/ visit'[c.id].pc = "welcome"
  BY <1>1, <1>2, <1>3, OthersAct
<1>6. /\ LoggedOut \subseteq LoggedOut'
      /\ \A i \in LoggedOut' : i \in LoggedOut \/ (w.kind = "logout" /\ w.pc = "out" /\ w.cookie # None /\ i = w.cookie.id)
  BY <1>1, <1>2, <1>3, LoggedOutGrows
<1>7. Acts(r)'
  <2>1. Registers(r)' /\ KindOf(r)' /\ Carries(r)' /\ Removed(r)'
    BY <1>1, <1>2, <1>4 DEF Arrived, Registers, KindOf, Carries, Removed
  <2>2. TooLate(r)'  BY <1>2, <1>4, <1>6 DEF Arrived, TooLate
  <2>3. QED  BY <2>1, <2>2 DEF Acts
<1>8. UsersOk' /\ JarOk'  BY <1>1, <1>5 DEF AccInv, UsersOk, JarOk
<1>9. ASSUME NEW l \in db.logins \cup disk.logins PROVE LoginOk(l)'
  <2>1. LoginOk(l) /\ l.until \in Nat  BY TypedAccounts DEF AccInv, A!Tables, A!LoginRows
  <2>2. ASSUME w.pc = "out", w.cookie # None, l.id = w.cookie.id PROVE l.until =< now
    <3>1. w.cookie \in jar /\ ~A!TokenValid(w.cookie)  BY <1>2, <2>2 DEF Arrived
    <3>2. l.until =< w.cookie.issued + SessionTTL  BY <2>1, <2>2, <3>1 DEF LoginOk
    <3>3. w.cookie.issued \in Nat /\ ~(now =< w.cookie.issued + SessionTTL)
      BY <1>3, <2>2, <3>1 DEF A!TokenValid
    <3>4. QED  BY <2>1, <3>2, <3>3, GateConstants
  <2>3. l.id \in LoggedOut' => l.until =< now'  BY <1>1, <1>6, <2>1, <2>2 DEF LoginOk
  <2>4. QED  BY <1>1, <2>1, <2>3 DEF LoginOk
<1>10. QED  BY <1>1, <1>5, <1>7, <1>8, <1>9 DEF AccInv

LEMMA ClearByAcc ==
    ASSUME AccInv, AccountsType, now \in Nat, NEW r \in Requests, ClearBy(r)
    PROVE  AccInv'
<1>1. visit[r].pc = "in" /\ now' = now /\ UNCHANGED <<db, disk, jar>> /\ Acts(r)
  BY DEF ClearBy, ClearCache, Clear, AccInv
<1>2. PICK p \in {"unauthorized", "done"} : A!Go(r, p)  BY DEF ClearBy
<1>3. PICK w : Moves(r, w) /\ w.pc = p /\ w.user = visit[r].user  BY <1>2, GoMoves
<1>4. visit \in [Requests -> A!Visits]  BY TypedAccounts
<1>5. visit' = [visit EXCEPT ![r] = w] /\ visit'[r] = w /\ SameRequest(w, visit[r])  BY <1>3, <1>4 DEF Moves
<1>6. LoggedOut \subseteq LoggedOut'  BY <1>1, <1>4, <1>5, LoggedOutGrows
<1>7. Acts(r)'
  BY <1>1, <1>2, <1>3, <1>5, <1>6 DEF Acts, Registers, KindOf, Carries, TooLate, Removed, SameRequest
<1>8. UsersOk'  BY <1>1 DEF AccInv, UsersOk
<1>9. QED  BY <1>1, <1>2, <1>3, <1>7, <1>8, MoveStep

\* What was answered is on disk already; who was not answered is gone.
LEMMA CrashAcc == ASSUME AccInv, AccountsType, now \in Nat, Crash PROVE AccInv'
<1>0. visit \in [Requests -> A!Visits]  BY TypedAccounts
<1>1. now' = now /\ db' = disk /\ UNCHANGED <<disk, jar>>  BY DEF Crash, Clear
<1>2. ASSUME NEW r \in Requests
      PROVE  \/ visit'[r] = visit[r] /\ visit[r].pc \in Settled
             \/ /\ visit'[r].pc = "lost" /\ visit[r].pc \notin Settled
                /\ SameRequest(visit'[r], visit[r]) /\ visit'[r].user = visit[r].user
  <2>1. visit[r] \in A!Visits  BY <1>0
  <2>2. CASE visit[r].pc \in Settled  BY <2>2 DEF Crash
  <2>3. CASE visit[r].pc \notin Settled
    <3>1. visit'[r] = [visit[r] EXCEPT !.pc = "lost"]  BY <2>3 DEF Crash
    <3>2. QED  BY <2>1, <2>3, <3>1 DEF SameRequest, A!Visits
  <2>4. QED  BY <2>2, <2>3
<1>3. LoggedOut' = LoggedOut  BY <1>2 DEF LoggedOut, Settled
<1>4. ASSUME NEW r \in Requests PROVE Acts(r)'
  <2>1. Acts(r)  BY DEF AccInv
  <2>2. CASE visit'[r] = visit[r] /\ visit[r].pc \in Settled
    <3>1. visit[r].pc \notin A!Waiting  BY <2>2 DEF Settled, A!Refused, A!Waiting
    <3>2. Registers(r)'  BY <1>1, <2>1, <2>2, <3>1 DEF Acts, Registers, Account, A!Waiting
    <3>3. KindOf(r)' /\ Removed(r)'  BY <2>2, <3>1 DEF KindOf, Removed, A!Waiting
    <3>4. Carries(r)' /\ TooLate(r)'  BY <1>1, <1>3, <2>1, <2>2 DEF Acts, Carries, TooLate
    <3>5. QED  BY <3>2, <3>3, <3>4 DEF Acts
  <2>3. CASE /\ visit'[r].pc = "lost"
             /\ SameRequest(visit'[r], visit[r]) /\ visit'[r].user = visit[r].user
    <3>1. Registers(r)' /\ KindOf(r)' /\ Removed(r)'  BY <2>3 DEF Registers, KindOf, Removed
    <3>2. Carries(r)' /\ TooLate(r)'  BY <1>1, <1>3, <2>1, <2>3 DEF Acts, Carries, TooLate, SameRequest
    <3>3. QED  BY <3>1, <3>2 DEF Acts
  <2>4. QED  BY <1>2, <2>2, <2>3
<1>5. UsersOk'  BY <1>1 DEF AccInv, UsersOk
<1>6. JarOk'
  <2> SUFFICES ASSUME NEW c \in jar, c.id # Old PROVE visit'[c.id].pc = "welcome"  BY <1>1 DEF JarOk
  <2>1. c.id \in Requests /\ visit[c.id].pc = "welcome"  BY TypedAccounts DEF AccInv, JarOk, A!Owners
  <2>2. QED  BY <1>2, <2>1 DEF Settled
<1>7. \A l \in (db.logins \cup disk.logins)' : LoginOk(l)'  BY <1>1, <1>3, LoginsKept
<1>8. QED  BY <1>4, <1>5, <1>6, <1>7 DEF AccInv

LEMMA AccountsInit == GateInit => AccInv
<1> SUFFICES ASSUME GateInit PROVE AccInv  OBVIOUS
<1>1. \A r \in Requests : visit[r] = A!NewVisit  BY DEF GateInit
<1>2. A!NewVisit.kind = None /\ A!NewVisit.pc = "new" /\ A!NewVisit.cookie = None /\ A!NewVisit.late = FALSE
  BY DEF A!NewVisit
<1>3. \A r \in Requests : Acts(r)
  BY <1>1, <1>2 DEF Acts, Registers, KindOf, Carries, TooLate, Removed
<1>4. LoggedOut = {}  BY <1>1, <1>2 DEF LoggedOut
<1>5. disk = db /\ now = 0  BY DEF GateInit, TranslationInit, Init
<1>6. CASE db = NoAccounts /\ jar = {}
  BY <1>3, <1>5, <1>6 DEF AccInv, UsersOk, JarOk, NoAccounts
<1>7. ASSUME NEW e, NEW p, db = OneAccount(e, p), jar = {[id |-> Old, issued |-> 0]} PROVE AccInv
  <2>1. UsersOk /\ JarOk  BY <1>5, <1>7 DEF UsersOk, JarOk, OneAccount
  <2>2. \A l \in db.logins : l.until = SessionTTL  BY <1>7 DEF OneAccount
  <2>3. \A l \in db.logins : LoginOk(l)  BY <1>4, <1>5, <1>7, <2>2, GateConstants DEF LoginOk
  <2>4. QED  BY <1>3, <1>5, <2>1, <2>3 DEF AccInv
<1>8. QED  BY <1>6, <1>7 DEF GateInit

LEMMA AccountsNext == GateInv /\ AccInv /\ [GateNext]_gateVars => AccInv'
<1> SUFFICES ASSUME GateInv, AccInv, [GateNext]_gateVars PROVE AccInv'  OBVIOUS
<1>0. AccountsType /\ now \in Nat /\ crashes \in Nat
  BY GateConstants DEF GateInv, TrInv, IInv, TypeOK
<1>1. disk.users \subseteq db.users  BY DEF AccInv, UsersOk
<1>2. ASSUME UNCHANGED accounts, now' \in {now, now + 1} PROVE AccInv'
  BY <1>0, <1>1, <1>2, AccountsQuiet DEF accounts
<1>3. CASE StartUp  BY <1>0, <1>3, StartUpAcc
<1>4. ASSUME NEW r \in Requests, Client(r) PROVE AccInv'  BY <1>0, <1>4, ArriveAcc
<1>5. ASSUME NEW r \in Requests, Serve(r) PROVE AccInv'
  <2>1. A!AccountStep(r) /\ UNCHANGED now  BY <1>5 DEF Serve
  <2>2. QED
    BY <1>0, <2>1, CreateUserAcc, SaveUserAcc, OpenLoginAcc, SaveLoginAcc, FindUserAcc, VerifyAcc,
       DropLoginAcc, SaveOutAcc, ResolveAcc, LoadUserAcc DEF A!AccountStep
<1>6. ASSUME NEW r \in Requests, ClearBy(r) PROVE AccInv'  BY <1>0, <1>6, ClearByAcc
<1>7. ASSUME NEW r \in Requests, Translate(r) PROVE AccInv'
  <2>1. UNCHANGED accounts  BY <1>7 DEF Translate
  <2>2. now' = now
    BY <1>7 DEF Translate, Lookup, Hit, Miss, Expire, UseCached, ModelAnswers, Take, Cache, Set, AttemptFails, CallStep, ChainStep, Formatted
  <2>3. QED  BY <1>2, <2>1, <2>2
<1>8. CASE Wait  BY <1>2, <1>8 DEF Wait, Tick
<1>9. CASE Crash  BY <1>0, <1>9, CrashAcc
<1>10. CASE UNCHANGED gateVars  BY <1>2, <1>10 DEF gateVars, vars
<1>11. QED  BY <1>3, <1>4, <1>5, <1>6, <1>7, <1>8, <1>9, <1>10 DEF GateNext

(***************************************************************************)
(* The rows of logins.                                                     *)
(*                                                                         *)
(* A login is for the account it looked up: accounts are told apart by     *)
(* their ids and none is ever removed.  From its insert on, the row of a   *)
(* login is in the table, and once it is answered on disk too, until it    *)
(* has run out or somebody who logs out has removed it.                    *)
(***************************************************************************)
Entry(r) == [id |-> r, user |-> visit[r].user, until |-> visit[r].until]
Holder(r) == [id |-> visit[r].user, email |-> visit[r].email, password |-> visit[r].password]

EndedBy(q, r) ==
    /\ visit[q].kind = "logout" /\ visit[q].cookie # None
    /\ visit[q].cookie.id = r /\ visit[q].pc \in {"saveOut", "out", "lost"}
LoginOver(r) == visit[r].until =< now \/ \E q \in Requests : EndedBy(q, r)

Owned(r) ==
    /\ visit[r].pc \in {"open", "saveLogin", "welcome"} => Holder(r) \in db.users
    /\ visit[r].pc = "welcome" => Holder(r) \in disk.users
Entered(r) ==
    /\ visit[r].pc \in {"saveLogin", "welcome"} => Entry(r) \in db.logins \/ LoginOver(r)
    /\ visit[r].pc = "welcome" => Entry(r) \in disk.logins \/ LoginOver(r)
Found(r) ==
    /\ visit[r].pc = "find" => visit[r].user = None
    /\ visit[r].pc = "verify" /\ visit[r].user # None =>
         \E u \in db.users : u.id = visit[r].user /\ u.email = visit[r].email
Enters(r) == Owned(r) /\ Entered(r) /\ Found(r)

IdsOk ==
    /\ \A u, w \in db.users : u.id = w.id => u = w
    /\ \A u \in db.users : u.id = Old \/ visit[u.id].pc \notin {"new", "hash"}

KeptInv == IdsOk /\ \A r \in Requests : Enters(r)

\* A move of one request leaves the rows of the others, but for the one it logs out.
LEMMA KeptMove ==
    ASSUME KeptInv, AccountsType, now \in Nat, now' = now, NEW r \in Requests, NEW w,
           visit' = [visit EXCEPT ![r] = w],
           visit[r].pc \notin {"out", "lost"},
           visit[r].pc = "saveOut" => w.kind = visit[r].kind /\ w.cookie = visit[r].cookie /\ w.pc = "out",
           db.users \subseteq db'.users, disk.users \subseteq disk'.users, disk' = disk \/ disk' = db',
           \A l \in db.logins : l \in db'.logins
              \/ (w.kind = "logout" /\ w.pc = "saveOut" /\ w.cookie # None /\ w.cookie.id = l.id),
           Enters(r)', IdsOk'
    PROVE  KeptInv'
<1>1. visit'[r] = w /\ \A q \in Requests \ {r} : visit'[q] = visit[q]
  BY DEF AccountsType, A!AccountsTypeOK
<1>2. ASSUME NEW p \in Requests, NEW q \in Requests, EndedBy(p, q) PROVE EndedBy(p, q)'
  BY <1>1, <1>2 DEF EndedBy
<1>3. ASSUME NEW q \in Requests \ {r} PROVE Enters(q)'
  <2>1. Enters(q) /\ visit'[q] = visit[q]  BY <1>1 DEF KeptInv
  <2>2. Entry(q)' = Entry(q) /\ Holder(q)' = Holder(q)  BY <2>1 DEF Entry, Holder
  <2>3. LoginOver(q) => LoginOver(q)'  BY <1>2, <2>1 DEF LoginOver
  <2>4. Entry(q) \in db.logins => Entry(q) \in db'.logins \/ LoginOver(q)'
    <3>1. Entry(q).id = q  BY DEF Entry
    <3>2. CASE w.kind = "logout" /\ w.pc = "saveOut" /\ w.cookie # None /\ w.cookie.id = q
      <4>1. EndedBy(r, q)'  BY <1>1, <3>2 DEF EndedBy
      <4>2. QED  BY <4>1 DEF LoginOver
    <3>3. QED  BY <3>1, <3>2
  <2>5. Owned(q)'  BY <2>1, <2>2 DEF Enters, Owned
  <2>6. Entered(q)'
    <3>1. CASE visit[q].pc = "saveLogin"
      <4>1. Entry(q) \in db.logins \/ LoginOver(q)  BY <2>1, <3>1 DEF Enters, Entered
      <4>2. QED  BY <2>1, <2>2, <2>3, <2>4, <3>1, <4>1 DEF Entered
    <3>2. CASE visit[q].pc = "welcome"
      <4>1. (Entry(q) \in db.logins /\ Entry(q) \in disk.logins) \/ LoginOver(q)
        BY <2>1, <3>2 DEF Enters, Entered
      <4>2. QED  BY <2>1, <2>2, <2>3, <2>4, <3>2, <4>1 DEF Entered
    <3>3. CASE visit[q].pc \notin {"saveLogin", "welcome"}  BY <2>1, <3>3 DEF Entered
    <3>4. QED  BY <3>1, <3>2, <3>3
  <2>7. Found(q)'  BY <2>1 DEF Enters, Found
  <2>8. QED  BY <2>5, <2>6, <2>7 DEF Enters
<1>4. QED  BY <1>3 DEF KeptInv

\* Nothing is asked of a request that has not yet found its user.
LEMMA NotYet ==
    ASSUME NEW r \in Requests, visit'[r].pc \notin {"find", "verify", "open", "saveLogin", "welcome"}
    PROVE  Enters(r)'
BY DEF Enters, Owned, Entered, Found

\* The accounts stay as they are while no request is new again.
LEMMA SameIds ==
    ASSUME IdsOk, AccountsType, NEW r \in Requests, NEW w, visit' = [visit EXCEPT ![r] = w],
           w.pc \in {"new", "hash"} => visit[r].pc \in {"new", "hash"}, db'.users = db.users
    PROVE  IdsOk'
<1>1. visit'[r] = w /\ \A q \in Requests \ {r} : visit'[q] = visit[q]
  BY DEF AccountsType, A!AccountsTypeOK
<1>2. \A u \in db.users : u.id \in Requests \cup {Old}
  BY TypedAccounts DEF A!Tables, A!UserRows, A!Owners
<1>3. \A u \in db.users : u.id = Old \/ visit'[u.id].pc \notin {"new", "hash"}
  BY <1>1, <1>2 DEF IdsOk
<1>4. QED  BY <1>3 DEF IdsOk

LEMMA KeptServe ==
    ASSUME AccInv, KeptInv, AccountsType, now \in Nat, UNCHANGED now, NEW r \in Requests, A!AccountStep(r)
    PROVE  KeptInv'
<1> DEFINE v == visit[r]
<1>0. /\ visit \in [Requests -> A!Visits] /\ db \in A!Tables /\ disk.users \subseteq db.users
      /\ v \in A!Visits /\ Acts(r) /\ Enters(r) /\ IdsOk
  BY TypedAccounts DEF AccInv, UsersOk, KeptInv
<1>1. ASSUME NEW p, A!Go(r, p), UNCHANGED <<db, disk>>, v.pc \notin {"out", "lost", "saveOut"},
             p \notin {"new", "hash", "find", "verify", "open", "saveLogin", "welcome"}
      PROVE  KeptInv'
  <2>1. PICK w : Moves(r, w) /\ w.pc = p  BY <1>1, GoMoves
  <2>2. visit' = [visit EXCEPT ![r] = w] /\ visit'[r] = w  BY <1>0, <2>1 DEF Moves
  <2>3. IdsOk'  BY <1>0, <1>1, <2>1, <2>2, SameIds
  <2>4. Enters(r)'  BY <1>1, <2>1, <2>2, NotYet
  <2>5. QED  BY <1>1, <2>2, <2>3, <2>4, KeptMove
<1>2. CASE A!CreateUser(r)
  <2>1. v.pc = "hash" /\ UNCHANGED disk  BY <1>2 DEF A!CreateUser
  <2>2. CASE A!Taken(v.email)  BY <1>1, <1>2, <2>1, <2>2 DEF A!CreateUser
  <2>3. CASE ~A!Taken(v.email)
    <3>1. A!Go(r, "saveUser") /\ db' = [db EXCEPT !.users = @ \cup {Account(r)}]
      BY <1>2, <2>3 DEF A!CreateUser, Account
    <3>2. PICK w : Moves(r, w) /\ w.pc = "saveUser"  BY <3>1, GoMoves
    <3>3. visit' = [visit EXCEPT ![r] = w] /\ visit'[r] = w  BY <1>0, <3>2 DEF Moves
    <3>4. db'.users = db.users \cup {Account(r)} /\ db'.logins = db.logins  BY <1>0, <3>1 DEF A!Tables
    <3>5. Account(r).id = r /\ r # Old  BY GateConstants DEF Account
    <3>6. \A u \in db.users : u.id # r  BY <2>1, <3>5 DEF KeptInv, IdsOk
    <3>7. \A u \in db.users : u.id \in Requests \cup {Old}  BY <1>0 DEF A!Tables, A!UserRows, A!Owners
    <3>8. IdsOk'
      <4>1. \A u, x \in db'.users : u.id = x.id => u = x  BY <1>0, <3>4, <3>5, <3>6 DEF IdsOk
      <4>2. \A u \in db'.users : u.id = Old \/ visit'[u.id].pc \notin {"new", "hash"}
        BY <1>0, <3>2, <3>3, <3>4, <3>5, <3>6, <3>7 DEF IdsOk
      <4>3. QED  BY <4>1, <4>2 DEF IdsOk
    <3>9. Enters(r)'  BY <3>2, <3>3, NotYet
    <3>10. QED  BY <2>1, <3>2, <3>3, <3>4, <3>8, <3>9, KeptMove
  <2>4. QED  BY <2>2, <2>3
<1>3. CASE A!SaveUser(r)
  <2>1. /\ v.pc = "saveUser" /\ v.kind = "register" /\ UNCHANGED db /\ disk' = db
        /\ A!OpenFor(r, r) /\ Account(r) \in db.users
    BY <1>0, <1>3 DEF A!SaveUser, A!Commit, Acts, KindOf, Registers
  <2>2. PICK w : Moves(r, w) /\ w.pc = "open" /\ w.user = r  BY <2>1, OpenMoves
  <2>3. visit' = [visit EXCEPT ![r] = w] /\ visit'[r] = w  BY <1>0, <2>2 DEF Moves
  <2>4. Holder(r)' = Account(r)  BY <2>2, <2>3 DEF Moves, SameRequest, Holder, Account
  <2>5. Enters(r)'  BY <2>1, <2>2, <2>3, <2>4 DEF Enters, Owned, Entered, Found
  <2>6. IdsOk'  BY <1>0, <2>1, <2>2, <2>3, SameIds
  <2>7. QED  BY <1>0, <2>1, <2>3, <2>5, <2>6, KeptMove
<1>4. CASE A!OpenLogin(r)
  <2>1. v.pc = "open" /\ UNCHANGED disk /\ A!Go(r, "saveLogin") /\ db' = [db EXCEPT !.logins = @ \cup {Entry(r)}]
    BY <1>4 DEF A!OpenLogin, Entry
  <2>2. PICK w : Moves(r, w) /\ w.pc = "saveLogin" /\ w.user = v.user /\ w.until = v.until  BY <2>1, GoMoves
  <2>3. visit' = [visit EXCEPT ![r] = w] /\ visit'[r] = w  BY <1>0, <2>2 DEF Moves
  <2>4. db'.users = db.users /\ db'.logins = db.logins \cup {Entry(r)}  BY <1>0, <2>1 DEF A!Tables
  <2>5. Entry(r)' = Entry(r) /\ Holder(r)' = Holder(r)
    BY <2>2, <2>3 DEF Moves, SameRequest, Holder, Entry
  <2>6. Enters(r)'  BY <1>0, <2>1, <2>2, <2>3, <2>4, <2>5 DEF Enters, Owned, Entered, Found
  <2>7. IdsOk'  BY <1>0, <2>2, <2>3, <2>4, SameIds
  <2>8. QED  BY <2>1, <2>3, <2>4, <2>6, <2>7, KeptMove
<1>5. CASE A!SaveLogin(r)
  <2>1. v.pc = "saveLogin" /\ A!Go(r, "welcome") /\ UNCHANGED db /\ disk' = db
    BY <1>5 DEF A!SaveLogin, A!Commit
  <2>2. PICK w : Moves(r, w) /\ w.pc = "welcome" /\ w.user = v.user /\ w.until = v.until  BY <2>1, GoMoves
  <2>3. visit' = [visit EXCEPT ![r] = w] /\ visit'[r] = w  BY <1>0, <2>2 DEF Moves
  <2>4. Entry(r)' = Entry(r) /\ Holder(r)' = Holder(r)
    BY <2>2, <2>3 DEF Moves, SameRequest, Holder, Entry
  <2>5. LoginOver(r) => LoginOver(r)'
    <3>1. \A q \in Requests : EndedBy(q, r) => EndedBy(q, r)'
      BY <1>0, <2>1, <2>3 DEF EndedBy
    <3>2. QED  BY <2>2, <2>3, <3>1 DEF LoginOver
  <2>6. Entry(r) \in db.logins \/ LoginOver(r)  BY <1>0, <2>1 DEF Enters, Entered
  <2>7. Holder(r) \in db.users  BY <1>0, <2>1 DEF Enters, Owned
  <2>8. Owned(r)' /\ Entered(r)' /\ Found(r)'
    BY <2>1, <2>2, <2>3, <2>4, <2>5, <2>6, <2>7 DEF Owned, Entered, Found
  <2>9. IdsOk'  BY <1>0, <2>1, <2>2, <2>3, SameIds
  <2>10. QED  BY <1>0, <2>1, <2>3, <2>8, <2>9, KeptMove DEF Enters
<1>6. CASE A!FindUser(r)
  <2>1. v.pc = "find" /\ UNCHANGED <<db, disk>>  BY <1>6 DEF A!FindUser, A!Reads
  <2>2. PICK w : /\ Moves(r, w) /\ w.pc = "verify"
                 /\ w.user = v.user \/ \E u \in db.users : u.email = v.email /\ w.user = u.id
    <3>1. CASE A!Go(r, "verify")  BY <3>1, GoMoves
    <3>2. CASE ~A!Go(r, "verify")
      <4>1. PICK u \in {x \in db.users : x.email = v.email} :
               visit' = [visit EXCEPT ![r].pc = "verify", ![r].user = u.id]
        BY <1>6, <3>2 DEF A!FindUser
      <4>2. PICK i : i = u.id  OBVIOUS
      <4>3. UserGo(r, "verify", i)  BY <4>1, <4>2 DEF UserGo
      <4>4. \E w : Moves(r, w) /\ w.pc = "verify" /\ w.user = i /\ w.until = visit[r].until
        BY <4>3, UserMoves
      <4>5. QED  BY <4>1, <4>2, <4>4
    <3>3. QED  BY <3>1, <3>2
  <2>3. visit' = [visit EXCEPT ![r] = w] /\ visit'[r] = w /\ w.email = v.email
    BY <1>0, <2>2 DEF Moves, SameRequest
  <2>4. v.user = None  BY <1>0, <2>1 DEF Enters, Found
  <2>5. Enters(r)'  BY <2>1, <2>2, <2>3, <2>4 DEF Enters, Owned, Entered, Found
  <2>6. IdsOk'  BY <1>0, <2>1, <2>2, <2>3, SameIds
  <2>7. QED  BY <2>1, <2>3, <2>5, <2>6, KeptMove
<1>7. CASE A!Verify(r)
  <2>1. v.pc = "verify" /\ UNCHANGED <<db, disk>>  BY <1>7 DEF A!Verify, A!Reads
  <2>2. CASE A!Go(r, "denied")  BY <1>1, <2>1, <2>2
  <2>3. CASE ~A!Go(r, "denied")
    <3>1. PICK u \in db.users : u.id = v.user /\ u.password = v.password  BY <1>7, <2>3 DEF A!Verify
    <3>2. A!OpenFor(r, v.user)  BY <1>7, <2>3 DEF A!Verify
    <3>3. v.user # None  BY <1>0, <3>1, GateConstants DEF A!Tables, A!UserRows, A!Owners
    <3>4. PICK x \in db.users : x.id = v.user /\ x.email = v.email  BY <1>0, <2>1, <3>3 DEF Enters, Found
    <3>5. u = x  BY <1>0, <3>1, <3>4 DEF IdsOk
    <3>6. u = Holder(r)
      <4>1. u \in A!UserRows  BY <1>0 DEF A!Tables
      <4>2. u = [id |-> u.id, email |-> u.email, password |-> u.password]  BY <4>1 DEF A!UserRows
      <4>3. QED  BY <3>1, <3>4, <3>5, <4>2 DEF Holder
    <3>7. PICK w : Moves(r, w) /\ w.pc = "open" /\ w.user = v.user  BY <3>2, OpenMoves
    <3>8. visit' = [visit EXCEPT ![r] = w] /\ visit'[r] = w  BY <1>0, <3>7 DEF Moves
    <3>9. Holder(r)' = Holder(r)  BY <3>7, <3>8 DEF Moves, SameRequest, Holder
    <3>10. Enters(r)'  BY <2>1, <3>6, <3>7, <3>8, <3>9 DEF Enters, Owned, Entered, Found
    <3>11. IdsOk'  BY <1>0, <2>1, <3>7, <3>8, SameIds
    <3>12. QED  BY <2>1, <3>8, <3>10, <3>11, KeptMove
  <2>4. QED  BY <2>2, <2>3
<1>8. CASE A!DropLogin(r)
  <2>1. /\ v.pc = "unlogin" /\ v.kind = "logout" /\ v.cookie # None /\ UNCHANGED disk
        /\ A!Go(r, "saveOut") /\ db' = [db EXCEPT !.logins = {l \in @ : l.id # v.cookie.id}]
    BY <1>0, <1>8 DEF A!DropLogin, A!Ends, Acts, KindOf
  <2>2. PICK w : Moves(r, w) /\ w.pc = "saveOut"  BY <2>1, GoMoves
  <2>3. visit' = [visit EXCEPT ![r] = w] /\ visit'[r] = w /\ w.kind = v.kind /\ w.cookie = v.cookie
    BY <1>0, <2>2 DEF Moves, SameRequest
  <2>4. db'.users = db.users /\ db'.logins = {l \in db.logins : l.id # v.cookie.id}
    BY <1>0, <2>1 DEF A!Tables
  <2>5. IdsOk'  BY <1>0, <2>2, <2>3, <2>4, SameIds
  <2>6. Enters(r)'  BY <2>2, <2>3, NotYet
  <2>7. QED  BY <2>1, <2>2, <2>3, <2>4, <2>5, <2>6, KeptMove
<1>9. CASE A!SaveOut(r)
  <2>1. v.pc = "saveOut" /\ UNCHANGED db /\ disk' = db /\ A!Go(r, "out")
    BY <1>9 DEF A!SaveOut, A!Commit
  <2>2. PICK w : Moves(r, w) /\ w.pc = "out"  BY <2>1, GoMoves
  <2>3. visit' = [visit EXCEPT ![r] = w] /\ visit'[r] = w /\ w.kind = v.kind /\ w.cookie = v.cookie
    BY <1>0, <2>2 DEF Moves, SameRequest
  <2>4. IdsOk'  BY <1>0, <2>1, <2>2, <2>3, SameIds
  <2>5. Enters(r)'  BY <2>2, <2>3, NotYet
  <2>6. QED  BY <1>0, <2>1, <2>2, <2>3, <2>4, <2>5, KeptMove
<1>10. CASE A!Resolve(r)
  <2>1. v.pc = "resolve" /\ UNCHANGED <<db, disk>>  BY <1>10 DEF A!Resolve, A!Reads
  <2>2. CASE A!Go(r, "in")  BY <1>1, <2>1, <2>2
  <2>3. CASE ~A!Go(r, "in")
    <3>1. PICK i : UserGo(r, "who", i)  BY <1>10, <2>3 DEF A!Resolve, UserGo
    <3>2. PICK w : Moves(r, w) /\ w.pc = "who"  BY <3>1, UserMoves
    <3>3. visit' = [visit EXCEPT ![r] = w] /\ visit'[r] = w  BY <1>0, <3>2 DEF Moves
    <3>4. IdsOk'  BY <1>0, <2>1, <3>2, <3>3, SameIds
    <3>5. Enters(r)'  BY <3>2, <3>3, NotYet
    <3>6. QED  BY <2>1, <3>3, <3>4, <3>5, KeptMove
  <2>4. QED  BY <2>2, <2>3
<1>11. CASE A!LoadUser(r)
  <2>1. v.pc = "who" /\ UNCHANGED <<db, disk>>  BY <1>11 DEF A!LoadUser, A!Reads
  <2>2. PICK i : i = IF \E x \in db.users : x.id = v.user THEN v.user ELSE None  OBVIOUS
  <2>3. UserGo(r, "in", i)  BY <1>11, <2>2 DEF UserGo, A!LoadUser
  <2>4. PICK w : Moves(r, w) /\ w.pc = "in"  BY <2>3, UserMoves
  <2>5. visit' = [visit EXCEPT ![r] = w] /\ visit'[r] = w  BY <1>0, <2>4 DEF Moves
  <2>6. IdsOk'  BY <1>0, <2>1, <2>4, <2>5, SameIds
  <2>7. Enters(r)'  BY <2>4, <2>5, NotYet
  <2>8. QED  BY <2>1, <2>5, <2>6, <2>7, KeptMove
<1>12. QED  BY <1>2, <1>3, <1>4, <1>5, <1>6, <1>7, <1>8, <1>9, <1>10, <1>11 DEF A!AccountStep

LEMMA KeptArrive ==
    ASSUME KeptInv, AccountsType, now \in Nat, crashes \in Nat, NEW r \in Requests, Client(r)
    PROVE  KeptInv'
<1>1. /\ visit[r].pc = "new" /\ now' = now /\ UNCHANGED <<db, disk, jar>>
      /\ \E w \in A!Visits : visit' = [visit EXCEPT ![r] = w] /\ Arrived(r, w) /\ Metered(r, w)
  BY ClientStep
<1>2. PICK w \in A!Visits : visit' = [visit EXCEPT ![r] = w] /\ Arrived(r, w)  BY <1>1
<1>3. visit'[r] = w  BY <1>2 DEF AccountsType, A!AccountsTypeOK
<1>4. w.pc \notin {"verify", "open", "saveLogin", "welcome", "saveOut"} /\ w.user = None  BY <1>2 DEF Arrived
<1>5. Enters(r)'  BY <1>3, <1>4 DEF Enters, Owned, Entered, Found
<1>6. IdsOk'  BY <1>1, <1>2, SameIds DEF KeptInv
<1>7. QED  BY <1>1, <1>2, <1>5, <1>6, KeptMove

LEMMA KeptClear ==
    ASSUME KeptInv, AccountsType, now \in Nat, NEW r \in Requests, ClearBy(r)
    PROVE  KeptInv'
<1>1. visit[r].pc = "in" /\ now' = now /\ UNCHANGED <<db, disk>>
  BY DEF ClearBy, ClearCache, Clear
<1>2. PICK p \in {"unauthorized", "done"} : A!Go(r, p)  BY DEF ClearBy
<1>3. PICK w : Moves(r, w) /\ w.pc = p  BY <1>2, GoMoves
<1>4. visit' = [visit EXCEPT ![r] = w] /\ visit'[r] = w
  BY <1>3 DEF Moves, AccountsType, A!AccountsTypeOK
<1>5. IdsOk'  BY <1>1, <1>3, <1>4, SameIds DEF KeptInv
<1>6. Enters(r)'  BY <1>2, <1>3, <1>4, NotYet
<1>7. QED  BY <1>1, <1>4, <1>5, <1>6, KeptMove

\* Nobody moves; rows go only when they have run out.
LEMMA KeptQuiet ==
    ASSUME KeptInv, AccountsType, now \in Nat, now' \in {now, now + 1}, UNCHANGED visit,
           db'.users = db.users, disk.users \subseteq disk'.users,
           \A l \in db.logins : l \in db'.logins \/ l.until =< now,
           disk' = disk \/ disk' = db'
    PROVE  KeptInv'
<1>1. IdsOk'  BY DEF KeptInv, IdsOk
<1>2. ASSUME NEW r \in Requests PROVE Enters(r)'
  <2>1. Enters(r) /\ visit[r].until \in Nat  BY TypedAccounts DEF KeptInv, A!Visits
  <2>2. Entry(r)' = Entry(r) /\ Holder(r)' = Holder(r) /\ Entry(r).until = visit[r].until
    BY DEF Entry, Holder
  <2>3. visit[r].until =< now => visit[r].until =< now'  BY <2>1
  <2>4. \A q \in Requests : EndedBy(q, r)' <=> EndedBy(q, r)  BY DEF EndedBy
  <2>5. LoginOver(r) => LoginOver(r)'  BY <2>3, <2>4 DEF LoginOver
  <2>6. Entry(r) \in db.logins => Entry(r) \in db'.logins \/ LoginOver(r)'  BY <2>2, <2>3 DEF LoginOver
  <2>7. Owned(r)'  BY <2>1, <2>2 DEF Enters, Owned
  <2>8. Entered(r)'  BY <2>1, <2>2, <2>5, <2>6 DEF Enters, Entered
  <2>9. Found(r)'  BY <2>1 DEF Enters, Found
  <2>10. QED  BY <2>7, <2>8, <2>9 DEF Enters
<1>3. QED  BY <1>1, <1>2 DEF KeptInv

LEMMA KeptStartUp == ASSUME AccInv, KeptInv, AccountsType, now \in Nat, StartUp PROVE KeptInv'
<1>1. now' = now /\ UNCHANGED visit
  BY DEF StartUp, Start, NextMigration, RunStatement, Record, Ready, A!CleanUp
<1>2. db \in A!Tables /\ disk.users \subseteq db.users  BY TypedAccounts DEF AccInv, UsersOk
<1>3. CASE UNCHANGED <<db, disk>>  BY <1>1, <1>2, <1>3, KeptQuiet
<1>4. CASE A!CleanUp
  <2>1. /\ db'.users = db.users /\ db'.logins = {l \in db.logins : l.until > now} /\ disk' = db'
    BY <1>2, <1>4 DEF A!CleanUp, A!Tables
  <2>2. \A l \in db.logins : l \in db'.logins \/ l.until =< now
    BY <1>2, <2>1 DEF A!Tables, A!LoginRows
  <2>3. QED  BY <1>1, <1>2, <2>1, <2>2, KeptQuiet
<1>5. QED  BY <1>3, <1>4 DEF StartUp, Start, NextMigration, RunStatement, Record, Ready

\* Of those a crash leaves, the answered ones need only the disk.
LEMMA KeptCrash == ASSUME AccInv, KeptInv, AccountsType, now \in Nat, Crash PROVE KeptInv'
<1>0. visit \in [Requests -> A!Visits] /\ disk.users \subseteq db.users
  BY TypedAccounts DEF AccInv, UsersOk
<1>1. now' = now /\ db' = disk /\ disk' = disk  BY DEF Crash, Clear
<1>2. ASSUME NEW r \in Requests
      PROVE  \/ visit'[r] = visit[r] /\ visit[r].pc \in Settled
             \/ /\ visit'[r].pc = "lost" /\ visit[r].pc \notin Settled
                /\ visit'[r].kind = visit[r].kind /\ visit'[r].cookie = visit[r].cookie
  <2>1. visit[r] \in A!Visits  BY <1>0
  <2>2. CASE visit[r].pc \in Settled  BY <2>2 DEF Crash
  <2>3. CASE visit[r].pc \notin Settled
    <3>1. visit'[r] = [visit[r] EXCEPT !.pc = "lost"]  BY <2>3 DEF Crash
    <3>2. QED  BY <2>1, <2>3, <3>1 DEF A!Visits
  <2>4. QED  BY <2>2, <2>3
<1>3. ASSUME NEW q \in Requests, NEW r \in Requests, EndedBy(q, r) PROVE EndedBy(q, r)'
  BY <1>2, <1>3 DEF EndedBy
<1>4. ASSUME NEW r \in Requests PROVE Enters(r)'
  <2>1. CASE visit'[r].pc = "welcome"
    <3>1. visit'[r] = visit[r] /\ Enters(r)  BY <1>2, <2>1 DEF KeptInv
    <3>2. Entry(r)' = Entry(r) /\ Holder(r)' = Holder(r)  BY <3>1 DEF Entry, Holder
    <3>3. LoginOver(r) => LoginOver(r)'  BY <1>1, <1>3, <3>1 DEF LoginOver
    <3>4. QED  BY <1>1, <2>1, <3>1, <3>2, <3>3 DEF Enters, Owned, Entered, Found
  <2>2. CASE visit'[r].pc # "welcome"
    <3>1. visit'[r].pc \notin {"find", "verify", "open", "saveLogin", "welcome"}
      BY <1>2, <2>2 DEF Settled, A!Refused
    <3>2. QED  BY <3>1, NotYet
  <2>3. QED  BY <2>1, <2>2
<1>5. IdsOk'
  <2>1. \A u \in disk.users : u.id \in Requests \cup {Old}
    BY TypedAccounts DEF A!Tables, A!UserRows, A!Owners
  <2>2. \A u \in disk.users : u.id = Old \/ visit[u.id].pc \notin {"new", "hash"}
    BY <1>0 DEF KeptInv, IdsOk
  <2>3. \A u \in disk.users : u.id = Old \/ visit'[u.id].pc \notin {"new", "hash"}
    BY <1>2, <2>1, <2>2
  <2>4. \A u, w \in disk.users : u.id = w.id => u = w  BY <1>0 DEF KeptInv, IdsOk
  <2>5. QED  BY <1>1, <2>3, <2>4 DEF IdsOk
<1>6. QED  BY <1>4, <1>5 DEF KeptInv

LEMMA KeptInit == GateInit => KeptInv
<1> SUFFICES ASSUME GateInit PROVE KeptInv  OBVIOUS
<1>1. \A r \in Requests : visit[r].pc = "new"  BY DEF GateInit, A!NewVisit
<1>2. \A r \in Requests : Enters(r)  BY <1>1 DEF Enters, Owned, Entered, Found
<1>3. ASSUME NEW e, NEW p, db = OneAccount(e, p) PROVE IdsOk  BY <1>3 DEF OneAccount, IdsOk
<1>4. IdsOk
  <2>1. CASE db = NoAccounts  BY <2>1 DEF NoAccounts, IdsOk
  <2>2. CASE db # NoAccounts  BY <1>3, <2>2 DEF GateInit
  <2>3. QED  BY <2>1, <2>2
<1>5. QED  BY <1>2, <1>4 DEF KeptInv

LEMMA KeptNext == GateInv /\ AccInv /\ KeptInv /\ [GateNext]_gateVars => KeptInv'
<1> SUFFICES ASSUME GateInv, AccInv, KeptInv, [GateNext]_gateVars PROVE KeptInv'  OBVIOUS
<1>0. AccountsType /\ now \in Nat /\ crashes \in Nat
  BY GateConstants DEF GateInv, TrInv, IInv, TypeOK
<1>1. ASSUME UNCHANGED accounts, now' \in {now, now + 1} PROVE KeptInv'
  BY <1>0, <1>1, KeptQuiet DEF accounts
<1>2. CASE StartUp  BY <1>0, <1>2, KeptStartUp
<1>3. ASSUME NEW r \in Requests, Client(r) PROVE KeptInv'  BY <1>0, <1>3, KeptArrive
<1>4. ASSUME NEW r \in Requests, Serve(r) PROVE KeptInv'
  BY <1>0, <1>4, KeptServe DEF Serve
<1>5. ASSUME NEW r \in Requests, ClearBy(r) PROVE KeptInv'  BY <1>0, <1>5, KeptClear
<1>6. ASSUME NEW r \in Requests, Translate(r) PROVE KeptInv'
  <2>1. UNCHANGED accounts  BY <1>6 DEF Translate
  <2>2. now' = now
    BY <1>6 DEF Translate, Lookup, Hit, Miss, Expire, UseCached, ModelAnswers, Take, Cache, Set, AttemptFails, CallStep, ChainStep, Formatted
  <2>3. QED  BY <1>1, <2>1, <2>2
<1>7. CASE Wait  BY <1>1, <1>7 DEF Wait, Tick
<1>8. CASE Crash  BY <1>0, <1>8, KeptCrash
<1>9. CASE UNCHANGED gateVars  BY <1>1, <1>9 DEF gateVars, vars
<1>10. QED  BY <1>2, <1>3, <1>4, <1>5, <1>6, <1>7, <1>8, <1>9 DEF GateNext

\* What the server answered stands through any number of crashes and however the
\* requests interleave: the account of an answered registration is on disk and is
\* the only one with its email; an answered registration or login is for the
\* account with its email and password, and its row is on disk until it runs out
\* or somebody logs out with its cookie; and after an answered logout nobody who
\* arrives with its cookie is taken for the user.
THEOREM Answers == GateSpec => []AnswersStand
<1>1. AccInv => AccountsAreKept /\ LogoutIsFinal
  <2> SUFFICES ASSUME AccInv PROVE AccountsAreKept /\ LogoutIsFinal  OBVIOUS
  <2>1. ASSUME NEW r \in Requests, visit[r].kind = "register", visit[r].pc = "welcome"
        PROVE  \E u \in disk.users : /\ u.id = r /\ u.password = visit[r].password
                                     /\ {w \in disk.users : w.email = visit[r].email} = {u}
    <3>1. PICK u : u = Account(r)  OBVIOUS
    <3>2. u.id = r /\ u.email = visit[r].email /\ u.password = visit[r].password  BY <3>1 DEF Account
    <3>3. u \in disk.users  BY <2>1, <3>1 DEF AccInv, Acts, Registers
    <3>4. \A w \in disk.users : w.email = u.email => w = u  BY <3>3 DEF AccInv, UsersOk
    <3>5. {w \in disk.users : w.email = visit[r].email} = {u}  BY <3>2, <3>3, <3>4
    <3>6. QED  BY <3>2, <3>3, <3>5
  <2>2. LogoutIsFinal  BY DEF LogoutIsFinal, AccInv, Acts, TooLate
  <2>3. QED  BY <2>1, <2>2 DEF AccountsAreKept
<1>2. KeptInv => LoginsAreKept
  BY DEF KeptInv, Enters, Owned, Entered, Entry, Holder, LoginOver, EndedBy, LoginsAreKept
<1>3. GateSpec => []AccInv
  BY AccountsInit, AccountsNext, GateInvariance, PTL DEF GateSpec
<1>4. GateSpec => []KeptInv
  BY <1>3, KeptInit, KeptNext, GateInvariance, PTL DEF GateSpec
<1>5. AnswersStand <=> AccountsAreKept /\ LoginsAreKept /\ LogoutIsFinal  BY DEF AnswersStand
<1>6. QED  BY <1>1, <1>2, <1>3, <1>4, <1>5, PTL

=============================================================================
