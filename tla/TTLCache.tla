------------------------------ MODULE TTLCache ------------------------------
(***************************************************************************)
(* cache.TTLCache: an OrderedDict with a time to live per entry and        *)
(* eviction of the least recently used entry.  Every method runs under the *)
(* cache's lock and without an await, so each is one step.                 *)
(*                                                                         *)
(* The order of the OrderedDict is kept as a stamp per entry, renewed by   *)
(* move_to_end.  The hit and miss counters, which only feed stats(), are   *)
(* left out.  `due` and `since` are history variables: when the last value *)
(* set under a key runs out, and which other keys were used after it.      *)
(***************************************************************************)
EXTENDS Naturals, FiniteSets

CONSTANTS
    Keys, Values,
    Max,        \* max_entries
    TTL,        \* default_ttl
    None,       \* Python's None: no entry, no answer
    MaxClock,   \* bound on time.monotonic()
    MaxMoves    \* bound on the number of move_to_end calls

VARIABLES
    now,    \* time.monotonic()
    store,  \* the OrderedDict: what each key maps to
    moves,  \* the stamp of the newest position
    got,    \* what the last get returned
    due, since

vars == <<now, store, moves, got, due, since>>

Entries == [value : Values, until : Nat, at : Nat]

ASSUME CacheConstants ==
    /\ IsFiniteSet(Keys)
    /\ Max \in Nat /\ TTL \in Nat /\ MaxClock \in Nat /\ MaxMoves \in Nat
    /\ None \notin Values /\ None \notin Entries /\ None \notin Nat
    /\ None \notin [value : Values, until : Nat]

TypeOK ==
    /\ now \in Nat /\ moves \in Nat
    /\ store \in [Keys -> Entries \cup {None}]
    /\ got \in Values \cup {None}
    /\ due \in [Keys -> Nat \cup {None}]
    /\ since \in [Keys -> SUBSET Keys]

Live(s) == {k \in Keys : s[k] # None}

\* set's loop: popitem(last=False) while the store is too long.  One set adds
\* at most one entry, so the loop runs at most once.
Trim(s) ==
    IF Cardinality(Live(s)) > Max
      THEN [k \in Keys |-> IF \A j \in Live(s) : s[k] # None /\ s[k].at =< s[j].at THEN None ELSE s[k]]
      ELSE s

\* fault: the default ttl is not applied
NoDeadline == None

Deadline == now + TTL

\* fault: an entry that has run out is still served
NeverExpired(k) == k \notin Keys

Expired(k) == store[k].until < now

\* fault: no move_to_end, entries stay in the order of their insertion
InOrder(k) == IF store[k] = None THEN moves + 1 ELSE store[k].at

\* move_to_end: where k stands after a get or a set
MovedToEnd(k) == moves + 1

\* k was used: it is the newest, and every other key counts k as used since
Used(k) == since' = [j \in Keys |-> IF j = k THEN {} ELSE since[j] \cup {k}]

Miss(k) ==
    /\ store[k] = None
    /\ got' = None
    /\ UNCHANGED <<now, store, moves, due, since>>

Expire(k) ==
    /\ store[k] # None /\ Expired(k)
    /\ got' = None
    /\ store' = [store EXCEPT ![k] = None]
    /\ UNCHANGED <<now, moves, due, since>>

Hit(k) ==
    /\ store[k] # None /\ ~Expired(k)
    /\ moves < MaxMoves
    /\ got' = store[k].value
    /\ store' = [store EXCEPT ![k].at = MovedToEnd(k)]
    /\ moves' = moves + 1
    /\ Used(k)
    /\ UNCHANGED <<now, due>>

Set(k, v) ==
    /\ moves < MaxMoves
    /\ store' = Trim([store EXCEPT ![k] = [value |-> v, until |-> Deadline, at |-> MovedToEnd(k)]])
    /\ moves' = moves + 1
    /\ due' = [due EXCEPT ![k] = now + TTL]
    /\ Used(k)
    /\ UNCHANGED <<now, got>>

Delete(k) ==
    /\ store' = [store EXCEPT ![k] = None]
    /\ due' = [due EXCEPT ![k] = None]
    /\ UNCHANGED <<now, moves, got, since>>

Clear ==
    /\ store' = [k \in Keys |-> None]
    /\ due' = [k \in Keys |-> None]
    /\ UNCHANGED <<now, moves, got, since>>

Tick ==
    /\ now < MaxClock
    /\ now' = now + 1
    /\ UNCHANGED <<store, moves, got, due, since>>

Init ==
    /\ now = 0 /\ moves = 0 /\ got = None
    /\ store = [k \in Keys |-> None]
    /\ due = [k \in Keys |-> None]
    /\ since = [k \in Keys |-> {}]

Next ==
    \/ \E k \in Keys : Miss(k) \/ Expire(k) \/ Hit(k) \/ Delete(k) \/ \E v \in Values : Set(k, v)
    \/ Clear
    \/ Tick

Spec == Init /\ [][Next]_vars
-----------------------------------------------------------------------------
(* Properties *)

\* The store never holds more than max_entries, so neither cache can grow with
\* the number of questions or conversations.
SizeBound == Cardinality(Live(store)) =< Max

\* A value that was set is found again until its time is up, unless it was
\* deleted or max_entries other keys were used after it: what is evicted is
\* always something nobody used lately.
RecentlyUsedKept ==
    \A k \in Keys : due[k] # None /\ now =< due[k] /\ Cardinality(since[k]) < Max
                    => store[k] # None /\ store[k].until = due[k]

\* The cache as its users see it: an entry is a value and a deadline.
Promise == INSTANCE LossyStore WITH
    held <- [k \in Keys |-> IF store[k] = None THEN None
                            ELSE [value |-> store[k].value, until |-> store[k].until]]

\* TTLCache implements LossyStore: no get returns a value of another key, an
\* overwritten value, or one past its deadline.
KeepsPromise == Promise!Spec
=============================================================================
