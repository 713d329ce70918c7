----------------------------- MODULE MCChatTurns -----------------------------
(***************************************************************************)
(* Small instances of ChatTurns for TLC.                                   *)
(*                                                                         *)
(* The inputs are those of two situations, told apart by s2 being in use.  *)
(* One conversation: two queries of its owner and one edit, with a crash;  *)
(* without edit and crash, the queries may be anonymous.  Two              *)
(* conversations: three queries of their two owners, one at a time until   *)
(* one of them is stored, then at most two at once.                        *)
(***************************************************************************)
EXTENDS ChatTurns, TLC
CONSTANTS u1, u2, s1, s2

Symmetry == Permutations(Turns)

Sent == {t \in Turns : turn[t].pc # "idle"}
InFlight == {t \in Sent : turn[t].pc \notin {"done", "lost"}}
Two == s2 \in used
Edited == \E e \in Edits : edit[e].pc # "idle"
Anonymous == \E t \in Sent : ~Durable(t)

\* user and session id of the next query
Queries ==
    CASE ~Two /\ Cardinality(Sent) < 2 ->
             IF Edited \/ crashes > 0 THEN {<<u1, s1>>} ELSE {u1, None} \X {s1, None}
      [] Two /\ Cardinality(InFlight) < (IF \E t \in Sent : turn[t].saved THEN 2 ELSE 1) ->
             IF Sent = {} THEN {u1, u2} \X {s1} ELSE {u1, u2} \X {s1, s2}
      [] OTHER -> {}

Openings ==
    CASE used = {} -> {<<u1, s1, None>>, <<u1, s1, "given">>}
      [] used = {s1} /\ sess[s1] # None /\ sess[s1].title = "given" /\ Sent = {} /\ ~Edited -> {<<u2, s2, "given">>}
      [] OTHER -> {}

MCClient ==
    \/ \E t \in Turns, query \in Queries : Send(t, query[1], query[2])
    \/ \E new \in Openings : Create(new[1], new[2], new[3])
    \/ ~Two /\ ~Anonymous /\ \E e \in Edits, k \in {"rename", "delete"} : EditSend(e, k, u1, s1)

MCNext ==
    \/ MCClient
    \/ \E t \in Turns : Progress(t) \/ Raise(t) \/ PersistFails(t)
    \/ \E e \in Edits : EditStep(e)
    \/ \E s \in Sids : Forget(s)
    \/ ~Two /\ ~Anonymous /\ Crash

MCSpec == Init /\ [][MCNext]_vars

\* chains are left to the one conversation
Bound == Two => \A t \in Sent : turn[t].resp # "chain"
=============================================================================
