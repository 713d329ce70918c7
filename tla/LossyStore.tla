------------------------------ MODULE LossyStore ------------------------------
(***************************************************************************)
(* What cache.TTLCache promises its users, the translation cache and the   *)
(* resolver's store of anonymous conversations: an entry may be lost at    *)
(* any time, but a lookup never returns anything except the value last put *)
(* under that very key, and never after its time to live.                  *)
(***************************************************************************)
EXTENDS Naturals

CONSTANTS Keys, Values, TTL, None

VARIABLES now, held, got

Entries == [value : Values, until : Nat]

\* h2 is h, less any entries
Lossy(h, h2) ==
    /\ h2 \in [Keys -> Entries \cup {None}]
    /\ \A k \in Keys : h2[k] \in {h[k], None}

Init == now = 0 /\ held = [k \in Keys |-> None] /\ got = None

Put(k, v) ==
    /\ Lossy([held EXCEPT ![k] = [value |-> v, until |-> now + TTL]], held')
    /\ UNCHANGED <<now, got>>

Get(k) ==
    /\ got' = IF held[k] # None /\ now =< held[k].until THEN held[k].value ELSE None
    /\ Lossy(held, held') /\ UNCHANGED now

Lose == Lossy(held, held') /\ UNCHANGED <<now, got>>

Tick == now' = now + 1 /\ UNCHANGED <<held, got>>

Next ==
    \/ \E k \in Keys : Get(k) \/ \E v \in Values : Put(k, v)
    \/ Lose
    \/ Tick

Spec == Init /\ [][Next]_<<now, held, got>>
=============================================================================
