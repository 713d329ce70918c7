------------------------------- MODULE MCGate -------------------------------
(* A small instance of Gate for TLC.                                         *)
EXTENDS Gate, TLC

CONSTANTS call, other, chain, wide, blank

\* two calls, a chain whose second step binds the first one's rows, one of too
\* many steps, and an answer without a tool
Answers == {call, other, chain, wide, blank}
Plans == {chain, wide}
Steps == (chain :> <<None, 0>>) @@ (wide :> <<None, None, None>>)
Blanks == {blank}

\* Bounds of the run: any two requests of the accounts, or two questions and
\* clears, side by side; three or four questions one after the other, a clear
\* beside them while there are three.  A crash may come at any step of up to two
\* requests; the server comes up again for the second of them, up to the instant
\* 1.  The last instant is for one request alone, which may wait for the model
\* until then.
Seen == {r \in Requests : visit[r].pc # "new"}
Busy == {r \in Seen : visit[r].pc \notin Settled /\ ask[r].pc \notin {"answered", "error"}}
Failed == {r \in Seen : visit[r].pc \in A!Refused \/ ask[r].pc = "error"}
Asking == \A r \in Seen : visit[r].kind = IF visit[r].cookie = None THEN "query" ELSE "clear"
InTurn == Asking /\ crashes = 0 /\ Cardinality(Busy) =< 1 /\ \A r \in Seen : ask[r].pc # "chain"
Clearing == \E r \in Seen : visit[r].kind = "clear"
Few ==
    /\ Asking \/ \A r \in Seen : visit[r].kind # "query"
    /\ CASE Cardinality(Seen) =< 2 -> TRUE
         [] Cardinality(Seen) = 3 -> \/ InTurn /\ Cardinality(Failed) =< 1
                                     \/ /\ Asking /\ Clearing /\ crashes = 0 /\ Failed = {}
                                        /\ Cardinality(Busy) =< 2 /\ \A r \in Seen : ask[r].pc # "chain"
         [] OTHER -> InTurn /\ ~Clearing /\ Failed = {} /\ \A r \in Seen : ask[r].tries =< 1
    /\ \/ crashes = 0 \/ Cardinality(Seen) =< 1
       \/ now =< 1 /\ boot.pc \in {"down", "up"}
    /\ now < MaxClock \/ Cardinality(Seen) =< 1

Symmetry == Permutations(Requests) \cup Permutations(Keys) \cup Permutations({call, other})
=============================================================================
