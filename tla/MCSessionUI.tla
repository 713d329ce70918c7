----------------------------- MODULE MCSessionUI -----------------------------
(* Small instances of SessionUI for TLC. *)
EXTENDS SessionUI, TLC
CONSTANTS c1, c2

Symmetry == Permutations(Sends)
One == <<c1>>
Two == <<c1, c2>>

\* Three of: a question, another, a pick, a click.
Few ==
    Cardinality({x \in Sends : send[x].pc # "idle"})
        + Cardinality({k \in Clicks : click[k].pc # "idle"}) + picks =< 3
=============================================================================
