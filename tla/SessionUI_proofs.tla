---------------------------- MODULE SessionUI_proofs ----------------------------
(***************************************************************************)
(* Theorems about SessionUI, for any conversations, questions and clicks.  *)
(*                                                                         *)
(* The typing comes first; it needs to know what taking a conversation out *)
(* of a list leaves.  The safety theorems rest on UIInv, which follows a   *)
(* turn from the send to the rows stored on the server and the requests    *)
(* that carry them: whatever is fetched for a conversation belongs to it,  *)
(* and only the request of the last message effect is still listened to.   *)
(***************************************************************************)
EXTENDS SessionUI, FiniteSetTheorems, SequenceTheorems, TLAPS

(***************************************************************************)
(* Lists.                                                                  *)
(***************************************************************************)

Rank(K, i) == Cardinality({j \in K : j =< i})

\* In a finite set of numbers every place is taken: ranks differ, so they
\* cannot but fill 1..Cardinality(K).
LEMMA NthOf ==
    ASSUME NEW m \in Nat, NEW K \in SUBSET (1..m), NEW n \in 1..Cardinality(K)
    PROVE  \E i \in K : Rank(K, i) = n
<1> DEFINE f == [i \in K |-> Rank(K, i)]
           T == 1..Cardinality(K)
<1>1. IsFiniteSet(K) /\ Cardinality(K) \in Nat
  <2>1. IsFiniteSet(1..m)  BY FS_Interval
  <2>2. IsFiniteSet(K)  BY <2>1, FS_Subset
  <2>3. QED  BY <2>2, FS_CardinalityType
<1>2. IsFiniteSet(T) /\ Cardinality(T) = Cardinality(K)  BY <1>1, FS_Interval
<1>3. ASSUME NEW i \in K PROVE Rank(K, i) \in T
  <2> DEFINE S == {j \in K : j =< i}
  <2>1. IsFiniteSet(S) /\ Cardinality(S) =< Cardinality(K)  BY <1>1, FS_Subset
  <2>2. i \in S /\ Cardinality(S) \in Nat  BY <2>1, FS_CardinalityType
  <2>3. Cardinality(S) # 0  BY <2>1, <2>2, FS_EmptySet
  <2>4. QED  BY <1>1, <2>1, <2>2, <2>3 DEF Rank
<1>4. ASSUME NEW i \in K, NEW j \in K, i < j PROVE Rank(K, i) # Rank(K, j)
  <2> DEFINE S == {k \in K : k =< i}
             U == {k \in K : k =< j}
  <2>0. IsFiniteSet(U)  BY <1>1, FS_Subset
  <2>1. S \in SUBSET U
    <3>1. K \subseteq Int  OBVIOUS
    <3>2. \A k \in K : k =< i => k =< j  BY <1>4, <3>1
    <3>3. QED  BY <3>2
  <2>2. j \in U /\ j \notin S  BY <1>4
  <2>3. Cardinality(U) # Cardinality(S)  BY <2>0, <2>1, <2>2, FS_Subset
  <2>4. QED  BY <2>3 DEF Rank
<1>5. f \in Injection(K, T)
  <2>1. f \in [K -> T]  BY <1>3
  <2>2. \A i, j \in K : i # j => i < j \/ j < i  OBVIOUS
  <2>3. \A i, j \in K : f[i] = f[j] => i = j  BY <1>4, <2>2
  <2>4. QED  BY <2>1, <2>3 DEF Injection, IsInjective
<1>6. f \in Surjection(K, T)  BY <1>1, <1>2, <1>5, FS_Injection
<1>7. PICK i \in K : f[i] = n  BY <1>6 DEF Surjection
<1>8. QED  BY <1>7

\* What is left of a list is a list, and c is not in it.
LEMMA WithoutType ==
    ASSUME NEW S, NEW s \in Seq(S), NEW c
    PROVE  Without(s, c) \in Seq(S \ {c})
<1> DEFINE K == {i \in 1..Len(s) : s[i] # c}
           At(n) == CHOOSE i \in K : Rank(K, i) = n
           N == Cardinality(K)
<1>1. Len(s) \in Nat /\ K \in SUBSET (1..Len(s))  OBVIOUS
<1>2. N \in Nat
  <2>1. IsFiniteSet(1..Len(s))  BY <1>1, FS_Interval
  <2>2. IsFiniteSet(K)  BY <1>1, <2>1, FS_Subset
  <2>3. QED  BY <2>2, FS_CardinalityType
<1>3. ASSUME NEW n \in 1..N PROVE s[At(n)] \in S \ {c}
  <2>1. \E i \in K : Rank(K, i) = n  BY <1>1, NthOf
  <2>2. At(n) \in K  BY <2>1
  <2>3. QED  BY <2>2
<1>4. Without(s, c) = [n \in 1..N |-> s[At(n)]]  BY DEF Without, Rank
<1> HIDE DEF At, N
<1>5. [n \in 1..N |-> s[At(n)]] \in Seq(S \ {c})  BY <1>2, <1>3, IsASeq
<1>6. QED  BY <1>4, <1>5

LEMMA ListOps ==
    ASSUME NEW s \in Ids, NEW c
    PROVE  /\ Without(s, c) \in Ids
           /\ c \in Convs => <<c>> \o s \in Ids
           /\ First(s) \in Convs \cup {None}
           /\ Contains(s, c) => c \in Convs
<1>1. Without(s, c) \in Ids
  <2>1. Without(s, c) \in Seq(Convs \ {c})  BY WithoutType DEF Ids
  <2>2. QED  BY <2>1, SeqMonotonic DEF Ids
<1>2. c \in Convs => <<c>> \o s \in Ids  BY DEF Ids
<1>3. First(s) \in Convs \cup {None}  BY EmptySeq DEF First, Ids
<1>4. Contains(s, c) => c \in Convs  BY ElementOfSeq DEF Contains, Ids
<1>5. QED  BY <1>1, <1>2, <1>3, <1>4

(***************************************************************************)
(* Typing.                                                                 *)
(***************************************************************************)

Turns == [pc : {"idle", "done"} \cup InFlight, sid : Convs \cup {None},
          aborted : BOOLEAN, out : BOOLEAN, stored : BOOLEAN]
ClickStates == [pc : {"idle", "asked", "read", "done"}, kind : {"new", "delete"},
                conv : Convs \cup {None}, active : Convs \cup {None}, list : Ids]
Loads == [conv : Convs, live : BOOLEAN, pc : {"asked", "read"}, rows : SUBSET Sends]

LEMMA TurnUpdates ==
    ASSUME NEW v \in Turns, NEW p \in {"idle", "done"} \cup InFlight, NEW c \in Convs \cup {None}
    PROVE  /\ [v EXCEPT !.pc = p] \in Turns
           /\ [v EXCEPT !.pc = p, !.sid = c] \in Turns
           /\ [v EXCEPT !.pc = p, !.sid = c, !.out = TRUE] \in Turns
           /\ [v EXCEPT !.pc = p, !.out = TRUE] \in Turns
           /\ [v EXCEPT !.stored = TRUE] \in Turns
           /\ [v EXCEPT !.aborted = TRUE] \in Turns
BY DEF Turns

LEMMA LoadUpdates ==
    ASSUME NEW l \in Loads, NEW xs \in SUBSET Sends
    PROVE  /\ [l EXCEPT !.live = FALSE] \in Loads
           /\ [l EXCEPT !.pc = "read", !.rows = xs] \in Loads
BY DEF Loads

LEMMA MessageTypes ==
    ASSUME NEW x \in Sends, NEW xs \in SUBSET Sends
    PROVE  /\ Local(x, "user") \in Messages /\ Local(x, "assistant") \in Messages
           /\ Stored(xs) \subseteq Messages
BY DEF Local, Stored, Messages

\* The step of one request or click changes one record.
ServerTypes == chats \in Ids /\ used \subseteq Convs /\ rows \in [Convs -> SUBSET Sends]
StateTypes == sessions \in Ids /\ activeId \in Convs \cup {None} /\ messages \subseteq Messages
ShownType == shown \in [active : Convs \cup {None}, list : Ids]
EffectTypes == effectId \in Convs \cup {None} /\ skipLoadFor \in Convs \cup {None} /\ loads \subseteq Loads
PageTypes == isLoading \in BOOLEAN /\ abortRef \in Sends \cup {None}
ListType == list \in [pc : {"asked", "read", "done"}, rows : Ids]

LEMMA TypeParts ==
    TypeOK <=> /\ ServerTypes /\ StateTypes /\ ShownType /\ EffectTypes /\ PageTypes /\ ListType
               /\ send \in [Sends -> Turns] /\ click \in [Clicks -> ClickStates]
               /\ picks \in 0..MaxPicks
BY DEF TypeOK, Loads, Turns, ClickStates, ServerTypes, StateTypes, ShownType, EffectTypes, PageTypes, ListType

LEMMA EffectKept ==
    ASSUME TypeOK, NEW c \in Convs \cup {None}, RunEffect(c)
    PROVE  EffectTypes' /\ messages' \subseteq Messages
<1>1. loads \subseteq Loads /\ skipLoadFor \in Convs \cup {None} /\ messages \subseteq Messages
  BY TypeParts DEF EffectTypes, StateTypes
<1>2. Retired \subseteq Loads  BY <1>1, LoadUpdates DEF Retired
<1>3. c # None => [conv |-> c, live |-> TRUE, pc |-> "asked", rows |-> {}] \in Loads  BY DEF Loads
<1>4. loads' \subseteq Loads  BY <1>1, <1>2, <1>3 DEF RunEffect
<1>5. QED  BY <1>1, <1>4 DEF RunEffect, EffectTypes

\* Once the server has answered, the new conversation's id is there.
Named ==
    /\ \A x \in Sends : send[x].pc = "created" => send[x].sid # None
    /\ \A k \in Clicks : click[k].pc = "read" /\ click[k].kind = "new" => click[k].conv # None

LEMMA NewSessionType ==
    ASSUME TypeOK, NEW c \in Convs, NewSession(c), UNCHANGED <<effectId, loads>>, messages' \subseteq Messages
    PROVE  StateTypes' /\ EffectTypes'
<1>1. sessions \in Ids  BY TypeParts DEF StateTypes
<1>2. sessions' \in Ids  BY <1>1, ListOps DEF NewSession
<1>3. QED  BY <1>2, TypeParts DEF NewSession, StateTypes, EffectTypes

LEMMA TypeSteps == TypeOK /\ Named /\ [Next]_vars => TypeOK'
<1> SUFFICES ASSUME TypeOK, Named, [Next]_vars PROVE TypeOK'  OBVIOUS
<1>0. /\ ServerTypes /\ StateTypes /\ ShownType /\ EffectTypes /\ PageTypes /\ ListType
      /\ send \in [Sends -> Turns] /\ click \in [Clicks -> ClickStates]
      /\ picks \in 0..MaxPicks
  BY TypeParts
<1>a. UNCHANGED server => ServerTypes'  BY <1>0 DEF server, ServerTypes
<1>b. UNCHANGED state => StateTypes'  BY <1>0 DEF state, StateTypes
<1>c. UNCHANGED shown => ShownType'  BY <1>0 DEF ShownType
<1>d. UNCHANGED effect => EffectTypes'  BY <1>0 DEF effect, EffectTypes
<1>e. UNCHANGED page => PageTypes'  BY <1>0 DEF page, PageTypes
<1>f. UNCHANGED list => ListType'  BY <1>0 DEF ListType
<1>g. UNCHANGED provider => StateTypes' /\ ShownType' /\ EffectTypes'
  BY <1>b, <1>c, <1>d DEF provider
<1>h. Finish => PageTypes'  BY <1>0 DEF Finish, PageTypes
<1>i. /\ UNCHANGED send => send' \in [Sends -> Turns]
      /\ UNCHANGED click => click' \in [Clicks -> ClickStates]
      /\ UNCHANGED picks => picks' \in 0..MaxPicks
  BY <1>0
<1>j. /\ ServerTypes' /\ StateTypes' /\ ShownType' /\ EffectTypes' /\ PageTypes' /\ ListType'
      /\ send' \in [Sends -> Turns] /\ click' \in [Clicks -> ClickStates]
      /\ picks' \in 0..MaxPicks
      => TypeOK'
  BY DEF TypeOK, Loads, Turns, ClickStates, ServerTypes, StateTypes, ShownType, EffectTypes, PageTypes, ListType
<1>1. ASSUME UNCHANGED <<server, page, list, send, click, picks>>, StateTypes', ShownType', EffectTypes'
      PROVE  TypeOK'
  BY <1>1, <1>a, <1>e, <1>f, <1>i, <1>j
<1>2. CASE ListRead
  <2>1. ListType'  BY <1>0, <1>2 DEF ListRead, ListType, ServerTypes
  <2>2. QED  BY <1>2, <2>1, <1>a, <1>e, <1>g, <1>i, <1>j DEF ListRead
<1>3. CASE ListAnswered
  <2>1. list.rows \in Ids /\ ListType'  BY <1>0, <1>3 DEF ListAnswered, ListType
  <2>2. First(list.rows) \in Convs \cup {None}  BY <2>1, ListOps
  <2>3. StateTypes'  BY <1>0, <1>3, <2>1, <2>2 DEF ListAnswered, StateTypes
  <2>4. QED  BY <1>3, <2>1, <2>3, <1>a, <1>c, <1>d, <1>e, <1>i, <1>j DEF ListAnswered
<1>4. CASE ListFails
  <2>1. <<>> \in Ids  BY EmptySeq DEF Ids
  <2>2. ListType' /\ StateTypes'  BY <1>0, <1>4, <2>1 DEF ListFails, ListType, StateTypes
  <2>3. QED  BY <1>4, <2>2, <1>a, <1>c, <1>d, <1>e, <1>i, <1>j DEF ListFails
<1>5. ASSUME NEW l \in loads, LoadRead(l) PROVE TypeOK'
  <2>1. l \in Loads /\ rows[l.conv] \in SUBSET Sends  BY <1>0 DEF Loads, EffectTypes, ServerTypes
  <2>2. EffectTypes'  BY <1>0, <1>5, <2>1, LoadUpdates DEF LoadRead, EffectTypes
  <2>3. QED  BY <1>1, <1>5, <2>2, <1>b, <1>c DEF LoadRead
<1>6. ASSUME NEW l \in loads, LoadAnswered(l) PROVE TypeOK'
  <2>1. l.rows \in SUBSET Sends  BY <1>0 DEF Loads, EffectTypes
  <2>2. Stored(l.rows) \subseteq Messages  BY <2>1 DEF Stored, Messages
  <2>3. StateTypes' /\ EffectTypes'  BY <1>0, <1>6, <2>2 DEF LoadAnswered, StateTypes, EffectTypes
  <2>4. QED  BY <1>1, <1>6, <2>3, <1>c DEF LoadAnswered
<1>7. ASSUME NEW l \in loads, LoadFails(l) PROVE TypeOK'
  <2>1. StateTypes' /\ EffectTypes'  BY <1>0, <1>7 DEF LoadFails, StateTypes, EffectTypes
  <2>2. QED  BY <1>1, <1>7, <2>1, <1>c DEF LoadFails
<1>8. ASSUME NEW c \in Convs, Select(c) PROVE TypeOK'
  <2>1. EffectTypes' /\ messages' \subseteq Messages
    BY <1>0, <1>8, <1>d, EffectKept DEF Select, StateTypes
  <2>2. StateTypes' /\ ShownType'  BY <1>0, <1>8, <2>1 DEF Select, StateTypes, ShownType
  <2>3. picks' \in 0..MaxPicks  BY <1>0, <1>8, UIConstants DEF Select
  <2>4. QED  BY <1>8, <2>1, <2>2, <2>3, <1>a, <1>e, <1>f, <1>i, <1>j DEF Select
<1>9. ASSUME NEW x \in Sends, Ask(x) PROVE TypeOK'
  <2>1. send[x] \in Turns /\ shown.active \in Convs \cup {None}  BY <1>0 DEF ShownType
  <2>2. send' = [send EXCEPT ![x] = [send[x] EXCEPT !.pc = "creating"]]
        \/ send' = [send EXCEPT ![x] = [send[x] EXCEPT !.pc = "asking", !.sid = shown.active, !.out = TRUE]]
    BY <1>9 DEF Ask, Submit
  <2>3. [send[x] EXCEPT !.pc = "creating"] \in Turns  BY <2>1 DEF Turns, InFlight
  <2>4. [send[x] EXCEPT !.pc = "asking", !.sid = shown.active, !.out = TRUE] \in Turns
    BY <2>1 DEF Turns, InFlight
  <2>5. send' \in [Sends -> Turns]  BY <1>0, <2>2, <2>3, <2>4
  <2>6. Local(x, "user") \in Messages  BY MessageTypes
  <2>7. StateTypes' /\ PageTypes'  BY <1>0, <1>9, <2>6 DEF Ask, Submit, StateTypes, PageTypes
  <2>8. QED  BY <1>9, <2>5, <2>7, <1>a, <1>c, <1>d, <1>f, <1>i, <1>j DEF Ask, Submit
<1>10. ASSUME NEW c \in Convs, NewConv(c), UNCHANGED rows PROVE ServerTypes'
  BY <1>0, <1>10, ListOps DEF NewConv, ServerTypes
<1>11. ASSUME NEW x \in Sends, NEW c \in Convs, ServerCreates(x, c) PROVE TypeOK'
  <2>1. send[x] \in Turns  BY <1>0
  <2>2. send' = [send EXCEPT ![x] = [send[x] EXCEPT !.pc = "created", !.sid = c]]
    BY <1>11 DEF ServerCreates
  <2>3. [send[x] EXCEPT !.pc = "created", !.sid = c] \in Turns  BY <2>1 DEF Turns, InFlight
  <2>4. send' \in [Sends -> Turns]  BY <1>0, <2>2, <2>3
  <2>5. ServerTypes'  BY <1>10, <1>11 DEF ServerCreates
  <2>6. QED  BY <1>11, <2>4, <2>5, <1>e, <1>f, <1>g, <1>i, <1>j DEF ServerCreates
<1>12. ASSUME NEW x \in Sends, Created(x) PROVE TypeOK'
  <2>1. send[x] \in Turns /\ send[x].sid \in Convs  BY <1>0, <1>12 DEF Created, Named, Turns
  <2>2. messages' \subseteq Messages  BY <1>12, MessageTypes DEF Created
  <2>3. StateTypes' /\ EffectTypes'  BY <1>12, <2>1, <2>2, NewSessionType DEF Created
  <2>4. \/ send' = [send EXCEPT ![x] = [send[x] EXCEPT !.pc = "done"]]
        \/ send' = [send EXCEPT ![x] = [send[x] EXCEPT !.pc = "asking", !.out = TRUE]]
    BY <1>12 DEF Created
  <2>5. send' \in [Sends -> Turns]
    <3>1. [send[x] EXCEPT !.pc = "done"] \in Turns  BY <2>1 DEF Turns
    <3>2. [send[x] EXCEPT !.pc = "asking", !.out = TRUE] \in Turns  BY <2>1 DEF Turns, InFlight
    <3>3. QED  BY <1>0, <2>4, <3>1, <3>2
  <2>6. PageTypes'  BY <1>12, <1>e, <1>h DEF Created
  <2>7. QED  BY <1>12, <2>3, <2>5, <2>6, <1>a, <1>c, <1>f, <1>i, <1>j DEF Created
<1>13. ASSUME NEW x \in Sends, Conclude(x) PROVE TypeOK'
  <2>1. send[x] \in Turns  BY <1>0
  <2>2. send' = [send EXCEPT ![x] = [send[x] EXCEPT !.pc = "done", !.sid = IF send[x].pc = "asking" THEN @ ELSE None]]
    BY <1>13 DEF Conclude
  <2>3. PICK c : c = IF send[x].pc = "asking" THEN send[x].sid ELSE None  OBVIOUS
  <2>4. c \in Convs \cup {None}  BY <2>1, <2>3 DEF Turns
  <2>5. send' = [send EXCEPT ![x] = [send[x] EXCEPT !.pc = "done", !.sid = c]]
    BY <2>2, <2>3, <2>1 DEF Turns
  <2>6. send' \in [Sends -> Turns]  BY <1>0, <2>1, <2>4, <2>5, TurnUpdates
  <2>7. StateTypes'  BY <1>0, <1>13, MessageTypes DEF Conclude, StateTypes
  <2>8. QED  BY <1>13, <2>6, <2>7, <1>a, <1>c, <1>d, <1>f, <1>h, <1>i, <1>j DEF Conclude
<1>14. ASSUME NEW x \in Sends, ServerAnswers(x) PROVE TypeOK'
  <2>0. chats \in Ids /\ rows \in [Convs -> SUBSET Sends]  BY <1>0 DEF ServerTypes
  <2>1. send[x] \in Turns /\ send[x].sid \in Convs  BY <1>0, <1>14, <2>0, ListOps DEF ServerAnswers
  <2>2. send' = [send EXCEPT ![x] = [send[x] EXCEPT !.stored = TRUE]]  BY <1>14 DEF ServerAnswers
  <2>3. send' \in [Sends -> Turns]  BY <1>0, <2>1, <2>2, TurnUpdates
  <2>4. Without(chats, send[x].sid) \in Ids  BY <2>0, ListOps
  <2>5. chats' \in Ids  BY <1>14, <2>1, <2>4, ListOps DEF ServerAnswers
  <2>6. rows' \in [Convs -> SUBSET Sends]  BY <1>14, <2>0, <2>1 DEF ServerAnswers
  <2>7. ServerTypes'  BY <1>0, <1>14, <2>5, <2>6 DEF ServerAnswers, ServerTypes
  <2>8. QED  BY <1>14, <2>3, <2>7, <1>e, <1>f, <1>g, <1>i, <1>j DEF ServerAnswers
<1>15. CASE Cancel
  <2>1. send' \in [Sends -> Turns]
    <3>1. CASE abortRef = None  BY <1>0, <1>15, <3>1 DEF Cancel
    <3>2. CASE abortRef # None
      <4>1. abortRef \in Sends /\ send[abortRef] \in Turns  BY <1>0, <3>2 DEF PageTypes
      <4>2. send' = [send EXCEPT ![abortRef] = [send[abortRef] EXCEPT !.aborted = TRUE]]
        BY <1>15, <3>2 DEF Cancel
      <4>3. QED  BY <1>0, <4>1, <4>2, TurnUpdates
    <3>3. QED  BY <3>1, <3>2
  <2>2. QED  BY <1>15, <2>1, <1>a, <1>f, <1>g, <1>h, <1>i, <1>j DEF Cancel
<1>16. ASSUME UNCHANGED <<page, list, send, picks>>, ServerTypes', StateTypes', ShownType', EffectTypes',
              click' \in [Clicks -> ClickStates]
       PROVE  TypeOK'
  BY <1>16, <1>e, <1>f, <1>i, <1>j
<1>17. ASSUME NEW k \in Clicks, ClickNew(k) PROVE TypeOK'
  <2>1. click[k] \in ClickStates  BY <1>0
  <2>2. click' = [click EXCEPT ![k] = [click[k] EXCEPT !.pc = "asked", !.kind = "new"]]
    BY <1>17 DEF ClickNew
  <2>3. [click[k] EXCEPT !.pc = "asked", !.kind = "new"] \in ClickStates  BY <2>1 DEF ClickStates
  <2>4. click' \in [Clicks -> ClickStates]  BY <1>0, <2>2, <2>3
  <2>5. QED  BY <1>16, <1>17, <2>4, <1>a, <1>g DEF ClickNew
<1>18. ASSUME NEW k \in Clicks, NEW c \in Convs, ClickDelete(k, c) PROVE TypeOK'
  <2>1. click' \in [Clicks -> ClickStates]  BY <1>0, <1>18 DEF ClickDelete, ClickStates, ShownType
  <2>2. QED  BY <1>16, <1>18, <2>1, <1>a, <1>g DEF ClickDelete
<1>19. ASSUME NEW k \in Clicks, NEW c \in Convs, ServerNew(k, c) PROVE TypeOK'
  <2>1. click[k] \in ClickStates  BY <1>0
  <2>2. click' = [click EXCEPT ![k] = [click[k] EXCEPT !.pc = "read", !.conv = c]]
    BY <1>19 DEF ServerNew
  <2>3. [click[k] EXCEPT !.pc = "read", !.conv = c] \in ClickStates  BY <2>1 DEF ClickStates
  <2>4. click' \in [Clicks -> ClickStates]  BY <1>0, <2>2, <2>3
  <2>5. ServerTypes'  BY <1>10, <1>19 DEF ServerNew
  <2>6. QED  BY <1>16, <1>19, <2>4, <2>5, <1>g DEF ServerNew
<1>20. ASSUME NEW k \in Clicks, NEW p \in {"read", "done"}, click' = [click EXCEPT ![k].pc = p]
       PROVE  click' \in [Clicks -> ClickStates]
  <2>1. click[k] \in ClickStates  BY <1>0
  <2>2. click' = [click EXCEPT ![k] = [click[k] EXCEPT !.pc = p]]  BY <1>20
  <2>3. [click[k] EXCEPT !.pc = p] \in ClickStates  BY <2>1 DEF ClickStates
  <2>4. QED  BY <1>0, <2>2, <2>3
<1>21. ASSUME NEW k \in Clicks, ServerDeletes(k) PROVE TypeOK'
  <2>0. chats \in Ids /\ rows \in [Convs -> SUBSET Sends]  BY <1>0 DEF ServerTypes
  <2>1. click[k].conv \in Convs /\ chats' \in Ids  BY <1>21, <2>0, ListOps DEF ServerDeletes
  <2>2. rows' \in [Convs -> SUBSET Sends]  BY <1>21, <2>0 DEF ServerDeletes
  <2>3. click' \in [Clicks -> ClickStates]  BY <1>20, <1>21 DEF ServerDeletes
  <2>4. ServerTypes'  BY <1>0, <1>21, <2>1, <2>2 DEF ServerDeletes, ServerTypes
  <2>5. QED  BY <1>16, <1>21, <2>3, <2>4, <1>g DEF ServerDeletes
<1>22. ASSUME NEW k \in Clicks, NewDone(k) PROVE TypeOK'
  <2>1. click[k].conv \in Convs  BY <1>0, <1>22 DEF NewDone, Named, ClickStates
  <2>2. StateTypes' /\ EffectTypes'  BY <1>22, <2>1, NewSessionType DEF NewDone
  <2>3. click' \in [Clicks -> ClickStates]  BY <1>20, <1>22 DEF NewDone
  <2>4. QED  BY <1>16, <1>22, <2>2, <2>3, <1>a, <1>c DEF NewDone
<1>23. ASSUME NEW k \in Clicks, DeleteDone(k) PROVE TypeOK'
  <2> DEFINE c == click[k].conv
             next == First(Without(click[k].list, c))
  <2>1. sessions' \in Ids  BY <1>0, <1>23, ListOps DEF DeleteDone, StateTypes
  <2>2. next \in Convs \cup {None}
    <3>1. click[k].list \in Ids  BY <1>0 DEF ClickStates
    <3>2. Without(click[k].list, c) \in Ids  BY <3>1, ListOps
    <3>3. QED  BY <3>2, ListOps
  <2>3. (activeId' = next /\ messages' = {}) \/ UNCHANGED <<activeId, messages>>  BY <1>23 DEF DeleteDone
  <2> HIDE DEF next
  <2>4. StateTypes'  BY <1>0, <2>1, <2>2, <2>3 DEF StateTypes
  <2>5. click' \in [Clicks -> ClickStates]  BY <1>20, <1>23 DEF DeleteDone
  <2>6. QED  BY <1>16, <1>23, <2>4, <2>5, <1>a, <1>c, <1>d DEF DeleteDone
<1>24. ASSUME NEW k \in Clicks, ClickFails(k) PROVE TypeOK'
  <2>1. click' \in [Clicks -> ClickStates]  BY <1>20, <1>24 DEF ClickFails
  <2>2. QED  BY <1>16, <1>24, <2>1, <1>a, <1>g DEF ClickFails
<1>25. CASE User  BY <1>8, <1>9, <1>15, <1>17, <1>18, <1>25 DEF User
<1>26. ASSUME NEW x \in Sends, Request(x) PROVE TypeOK'
  BY <1>11, <1>12, <1>13, <1>26 DEF Request, Answered, Aborted, Fails
<1>27. CASE Paint
  <2>1. ShownType'  BY <1>0, <1>27 DEF Paint, ShownType, StateTypes
  <2>2. QED  BY <1>1, <1>27, <2>1, <1>b, <1>d DEF Paint
<1>28. CASE Effect
  <2>1. EffectTypes' /\ messages' \subseteq Messages  BY <1>0, <1>28, EffectKept DEF Effect, ShownType
  <2>2. StateTypes'  BY <1>0, <1>28, <2>1 DEF Effect, StateTypes
  <2>3. QED  BY <1>1, <1>28, <2>1, <2>2, <1>c DEF Effect
<1>29. CASE UNCHANGED vars
  BY <1>1, <1>29, <1>g DEF vars
<1>30. QED
  BY <1>2, <1>3, <1>4, <1>5, <1>6, <1>7, <1>14, <1>19, <1>21, <1>22, <1>23, <1>24, <1>25, <1>26, <1>27,
     <1>28, <1>29
  DEF Next

(***************************************************************************)
(* What the user sees.                                                     *)
(***************************************************************************)

Turn(x) ==
    /\ send[x].out => send[x].pc \in {"asking", "done"}
    /\ send[x].stored => send[x].out
    /\ send[x].pc = "idle" => ~send[x].aborted

\* the turns xs are stored, in conversation c
Of(xs, c) == \A x \in xs : send[x].stored /\ send[x].sid = c

\* A fetch carries the turns of its conversation, and the only fetch listened to
\* is the one of the effect that ran last.
Fetches ==
    /\ \A c \in Convs : Of(rows[c], c)
    /\ \A l \in loads : Of(l.rows, l.conv) /\ (l.live => l.conv = effectId)

\* The composer is locked by the question Cancel would abort; before the first
\* cancel no other question is under way.
Locked ==
    /\ isLoading <=> abortRef # None
    /\ abortRef # None => send[abortRef].pc \in InFlight /\ ~send[abortRef].aborted
    /\ (\A x \in Sends : ~send[x].aborted) => \A x \in Sends : send[x].pc \in InFlight => abortRef = x

UIInv == TypeOK /\ Named /\ (\A x \in Sends : Turn(x)) /\ Fetches /\ Locked

\* What is stored stays, where it is.
Steady == \A x \in Sends : send[x].stored => send'[x].stored /\ send'[x].sid = send[x].sid

LEMMA InvTypes ==
    UIInv => /\ rows \in [Convs -> SUBSET Sends] /\ loads \subseteq Loads
             /\ abortRef \in Sends \cup {None}
             /\ send \in [Sends -> Turns] /\ click \in [Clicks -> ClickStates]
BY TypeParts DEF UIInv, ServerTypes, EffectTypes, PageTypes

LEMMA FetchesKept ==
    ASSUME UIInv, Steady, UNCHANGED <<rows, effectId, loads>>
    PROVE  Fetches'
BY InvTypes DEF UIInv, Fetches, Of, Steady, Loads

\* The effect's cleanup stops listening to every fetch before it; its own asks for
\* the conversation it runs for.
LEMMA FetchesEffect ==
    ASSUME UIInv, UNCHANGED <<rows, send>>, NEW c, RunEffect(c)
    PROVE  Fetches'
<1> DEFINE new == [conv |-> c, live |-> TRUE, pc |-> "asked", rows |-> {}]
<1>1. loads \subseteq Loads  BY InvTypes
<1>2. effectId' = c /\ \A l \in loads' : l \in Retired \/ l = new  BY DEF RunEffect
<1>3. ASSUME NEW l \in Retired PROVE Of(l.rows, l.conv)' /\ ~l.live
  <2>1. PICK k \in loads : l = [k EXCEPT !.live = FALSE]  BY DEF Retired
  <2>2. k \in Loads /\ Of(k.rows, k.conv)  BY <1>1 DEF UIInv, Fetches
  <2>3. ~l.live /\ l.rows = k.rows /\ l.conv = k.conv  BY <2>1, <2>2 DEF Loads
  <2>4. QED  BY <2>2, <2>3 DEF Of
<1>4. Of(new.rows, new.conv)' /\ new.conv = c  BY DEF Of
<1>5. \A k \in Convs : Of(rows[k], k)'  BY DEF UIInv, Fetches, Of
<1>6. QED  BY <1>2, <1>3, <1>4, <1>5 DEF Fetches, Of

\* The record of one request changes.
LEMMA OneSend ==
    ASSUME UIInv, NEW x \in Sends, NEW w, send' = [send EXCEPT ![x] = w],
           w.out => w.pc \in {"asking", "done"}, w.stored => w.out, w.pc # "idle",
           send[x].stored => w.stored /\ w.sid = send[x].sid,
           w.pc = "created" => w.sid # None, click' = click
    PROVE  send'[x] = w /\ Steady /\ Named' /\ \A y \in Sends : Turn(y)'
<1>1. send \in [Sends -> Turns]  BY InvTypes
<1>2. send'[x] = w /\ \A y \in Sends \ {x} : send'[y] = send[y]  BY <1>1
<1>3. Steady  BY <1>2 DEF Steady
<1>4. Named'  BY <1>2 DEF UIInv, Named
<1>5. \A y \in Sends : Turn(y)'  BY <1>2 DEF UIInv, Turn
<1>6. QED  BY <1>2, <1>3, <1>4, <1>5

LEMMA SendsKept ==
    ASSUME UIInv, send' = send
    PROVE  Steady /\ \A y \in Sends : Turn(y)'
BY DEF UIInv, Turn, Steady

\* No question starts, ends or is cancelled.
LEMMA LockKept ==
    ASSUME UIInv, UNCHANGED page, NEW x \in Sends,
           send'[x].aborted = send[x].aborted, send'[x].pc \in InFlight <=> send[x].pc \in InFlight,
           \A y \in Sends \ {x} : send'[y] = send[y]
    PROVE  Locked'
<1>1. \A y \in Sends : /\ send'[y].aborted = send[y].aborted
                       /\ send'[y].pc \in InFlight <=> send[y].pc \in InFlight
  OBVIOUS
<1>2. QED  BY <1>1, InvTypes DEF UIInv, Locked, page

\* A question ends: before the first cancel it is the one that holds the lock.
LEMMA LockFreed ==
    ASSUME UIInv, Finish, NEW x \in Sends, send[x].pc \in InFlight, send'[x].pc = "done",
           send'[x].aborted = send[x].aborted, \A y \in Sends \ {x} : send'[y] = send[y]
    PROVE  Locked'
<1>1. ~(isLoading') /\ abortRef' = None  BY DEF Finish
<1>2. ASSUME \A y \in Sends : ~send'[y].aborted, NEW y \in Sends, send'[y].pc \in InFlight PROVE FALSE
  <2>1. y # x  BY <1>2 DEF InFlight
  <2>2. \A z \in Sends : ~send[z].aborted  BY <1>2
  <2>3. send[y].pc \in InFlight  BY <1>2, <2>1
  <2>4. abortRef = x /\ abortRef = y  BY <2>2, <2>3 DEF UIInv, Locked
  <2>5. QED  BY <2>1, <2>4
<1>3. QED  BY <1>1, <1>2 DEF Locked

LEMMA AskInv == ASSUME UIInv, TypeOK', NEW x \in Sends, Ask(x) PROVE UIInv'
<1>0. Submit(x) /\ ~isLoading  BY DEF Ask
<1>1. send[x] \in Turns /\ send[x].pc = "idle" /\ Turn(x)  BY <1>0, InvTypes DEF UIInv, Submit
<1>2. ~send[x].out /\ ~send[x].stored /\ ~send[x].aborted  BY <1>1 DEF Turn
<1>3. PICK w : /\ send' = [send EXCEPT ![x] = w] /\ w.pc \in {"creating", "asking"}
               /\ ~w.stored /\ ~w.aborted /\ (w.out => w.pc = "asking")
  <2>1. CASE shown.active = None
    <3>1. PICK w : w = [send[x] EXCEPT !.pc = "creating"]  OBVIOUS
    <3>2. w.pc = "creating" /\ ~w.stored /\ ~w.aborted /\ ~w.out  BY <1>1, <1>2, <3>1 DEF Turns
    <3>3. send' = [send EXCEPT ![x] = w]  BY <1>0, <2>1, <3>1 DEF Submit
    <3>4. QED  BY <3>2, <3>3
  <2>2. CASE shown.active # None
    <3>1. PICK w : w = [send[x] EXCEPT !.pc = "asking", !.sid = shown.active, !.out = TRUE]  OBVIOUS
    <3>2. w.pc = "asking" /\ ~w.stored /\ ~w.aborted  BY <1>1, <1>2, <3>1 DEF Turns
    <3>3. send' = [send EXCEPT ![x] = w]  BY <1>0, <2>2, <3>1 DEF Submit
    <3>4. QED  BY <3>2, <3>3
  <2>3. QED  BY <2>1, <2>2
<1>4. send'[x] = w /\ Steady /\ Named' /\ \A y \in Sends : Turn(y)'
  BY <1>0, <1>2, <1>3, OneSend DEF Submit
<1>5. Fetches'  BY <1>0, <1>4, FetchesKept DEF Submit, server, effect
<1>6. Locked'
  <2>1. isLoading' = TRUE /\ abortRef' = x /\ x # None  BY <1>0, UIConstants DEF Submit
  <2>2. send'[x].pc \in InFlight /\ ~send'[x].aborted  BY <1>3, <1>4 DEF InFlight
  <2>3. \A y \in Sends \ {x} : send'[y] = send[y]  BY <1>3, InvTypes
  <2>4. ASSUME \A y \in Sends : ~send'[y].aborted, NEW y \in Sends, send'[y].pc \in InFlight PROVE y = x
    <3>1. SUFFICES ASSUME y # x PROVE FALSE  OBVIOUS
    <3>2. \A z \in Sends : ~send[z].aborted  BY <1>2, <2>3, <2>4
    <3>3. send[y].pc \in InFlight  BY <2>3, <2>4, <3>1
    <3>4. abortRef = y /\ abortRef = None  BY <1>0, <3>2, <3>3 DEF UIInv, Locked
    <3>5. QED  BY <3>4, UIConstants
  <2>5. QED  BY <2>1, <2>2, <2>4 DEF Locked
<1>7. QED  BY <1>4, <1>5, <1>6 DEF UIInv

LEMMA ServerCreatesInv ==
    ASSUME UIInv, TypeOK', NEW x \in Sends, NEW c \in Convs, ServerCreates(x, c)
    PROVE  UIInv'
<1>1. send[x] \in Turns /\ send[x].pc = "creating" /\ Turn(x)  BY InvTypes DEF UIInv, ServerCreates
<1>2. PICK w : w = [send[x] EXCEPT !.pc = "created", !.sid = c]  OBVIOUS
<1>3. send' = [send EXCEPT ![x] = w]  BY <1>2 DEF ServerCreates
<1>4. /\ w.pc = "created" /\ w.sid = c /\ w.sid # None /\ ~w.out /\ ~w.stored /\ ~send[x].stored
      /\ w.aborted = send[x].aborted
  BY <1>1, <1>2, UIConstants DEF Turn, Turns
<1>5. send'[x] = w /\ Steady /\ Named' /\ \A y \in Sends : Turn(y)'
  BY <1>3, <1>4, OneSend DEF ServerCreates
<1>6. Fetches'  BY <1>5, FetchesKept DEF ServerCreates, provider, effect
<1>7. Locked'
  <2>1. \A y \in Sends \ {x} : send'[y] = send[y]  BY <1>3, InvTypes
  <2>2. QED  BY <1>1, <1>4, <1>5, <2>1, LockKept DEF ServerCreates, InFlight
<1>8. QED  BY <1>5, <1>6, <1>7 DEF UIInv

LEMMA CreatedInv == ASSUME UIInv, TypeOK', NEW x \in Sends, Created(x) PROVE UIInv'
<1>1. send[x] \in Turns /\ send[x].pc = "created" /\ Turn(x)  BY InvTypes DEF UIInv, Created
<1>2. ~send[x].out /\ ~send[x].stored  BY <1>1 DEF Turn
<1>3. Steady => Fetches'  BY FetchesKept DEF Created, server
<1>4. \A y \in Sends \ {x} : send'[y] = send[y]  BY InvTypes DEF Created
<1>5. CASE send[x].aborted
  <2>1. PICK w : w = [send[x] EXCEPT !.pc = "done"]  OBVIOUS
  <2>2. send' = [send EXCEPT ![x] = w] /\ Finish  BY <1>5, <2>1 DEF Created
  <2>3. w.pc = "done" /\ ~w.out /\ ~w.stored /\ w.aborted = send[x].aborted  BY <1>1, <1>2, <2>1 DEF Turns
  <2>4. send'[x] = w /\ Steady /\ Named' /\ \A y \in Sends : Turn(y)'
    BY <1>2, <2>2, <2>3, OneSend DEF Created
  <2>5. Locked'  BY <1>1, <1>4, <2>2, <2>3, <2>4, LockFreed DEF InFlight
  <2>6. QED  BY <1>3, <2>4, <2>5 DEF UIInv
<1>6. CASE ~send[x].aborted
  <2>1. PICK w : w = [send[x] EXCEPT !.pc = "asking", !.out = TRUE]  OBVIOUS
  <2>2. send' = [send EXCEPT ![x] = w] /\ UNCHANGED page  BY <1>6, <2>1 DEF Created
  <2>3. w.pc = "asking" /\ ~w.stored /\ w.aborted = send[x].aborted  BY <1>1, <1>2, <2>1 DEF Turns
  <2>4. send'[x] = w /\ Steady /\ Named' /\ \A y \in Sends : Turn(y)'
    BY <1>2, <2>2, <2>3, OneSend DEF Created
  <2>5. Locked'  BY <1>1, <1>4, <2>2, <2>3, <2>4, LockKept DEF InFlight
  <2>6. QED  BY <1>3, <2>4, <2>5 DEF UIInv
<1>7. QED  BY <1>1, <1>5, <1>6 DEF Turns

LEMMA ConcludeInv ==
    ASSUME UIInv, TypeOK', NEW x \in Sends, send[x].pc \in InFlight, Conclude(x)
    PROVE  UIInv'
<1>1. send[x] \in Turns /\ Turn(x)  BY InvTypes DEF UIInv
<1>2. PICK c : c = IF send[x].pc = "asking" THEN send[x].sid ELSE None  OBVIOUS
<1>3. PICK w : w = [send[x] EXCEPT !.pc = "done", !.sid = c]  OBVIOUS
<1>4. send' = [send EXCEPT ![x] = w]  BY <1>1, <1>2, <1>3 DEF Conclude, Turns
<1>5. /\ w.pc = "done" /\ w.sid = c /\ w.stored = send[x].stored /\ w.out = send[x].out
      /\ w.aborted = send[x].aborted
  BY <1>1, <1>3 DEF Turns
<1>6. send[x].stored => send[x].out /\ c = send[x].sid  BY <1>1, <1>2 DEF Turn, InFlight
<1>7. send'[x] = w /\ Steady /\ Named' /\ \A y \in Sends : Turn(y)'
  BY <1>4, <1>5, <1>6, OneSend DEF Conclude
<1>8. Fetches'  BY <1>7, FetchesKept DEF Conclude, server, effect
<1>9. Locked'
  <2>1. \A y \in Sends \ {x} : send'[y] = send[y]  BY <1>4, InvTypes
  <2>2. QED  BY <1>5, <1>7, <2>1, LockFreed DEF Conclude
<1>10. QED  BY <1>7, <1>8, <1>9 DEF UIInv

\* The server stores a turn where its question was asked.
LEMMA ServerAnswersInv == ASSUME UIInv, TypeOK', NEW x \in Sends, ServerAnswers(x) PROVE UIInv'
<1>0. rows \in [Convs -> SUBSET Sends] /\ loads \subseteq Loads  BY InvTypes
<1>1. send[x] \in Turns /\ send[x].out /\ ~send[x].stored /\ Turn(x)
  BY InvTypes DEF UIInv, ServerAnswers
<1>2. PICK w : w = [send[x] EXCEPT !.stored = TRUE]  OBVIOUS
<1>3. send' = [send EXCEPT ![x] = w]  BY <1>2 DEF ServerAnswers
<1>4. /\ w.pc = send[x].pc /\ w.stored /\ w.out /\ w.sid = send[x].sid /\ w.aborted = send[x].aborted
      /\ w.pc \in {"asking", "done"}
  BY <1>1, <1>2 DEF Turns, Turn
<1>5. send'[x] = w /\ Steady /\ Named' /\ \A y \in Sends : Turn(y)'
  BY <1>1, <1>3, <1>4, OneSend DEF ServerAnswers
<1>6. \A y \in Sends \ {x} : send'[y] = send[y]  BY <1>3, InvTypes
<1>7. UNCHANGED <<effectId, loads>>  BY DEF ServerAnswers, provider, effect
<1>8. ASSUME NEW c \in Convs PROVE Of(rows[c], c)'
  <2>1. Of(rows[c], c) /\ rows[c] \subseteq Sends  BY <1>0 DEF UIInv, Fetches
  <2>2. \A y \in rows[c] : send'[y].stored /\ send'[y].sid = c  BY <1>5, <2>1 DEF Of, Steady
  <2>3. rows'[c] = rows[c] \/ (c = send[x].sid /\ rows'[c] = rows[c] \cup {x})
    BY <1>0 DEF ServerAnswers
  <2>4. QED  BY <1>4, <1>5, <2>2, <2>3 DEF Of
<1>9. ASSUME NEW l \in loads PROVE Of(l.rows, l.conv)' /\ (l.live => l.conv = effectId')
  BY <1>0, <1>5, <1>7 DEF UIInv, Fetches, Of, Steady, Loads
<1>10. Fetches'  BY <1>7, <1>8, <1>9 DEF Fetches
<1>11. Locked'  BY <1>4, <1>5, <1>6, LockKept DEF ServerAnswers
<1>12. QED  BY <1>5, <1>10, <1>11 DEF UIInv

LEMMA CancelInv == ASSUME UIInv, TypeOK', Cancel PROVE UIInv'
<1>1. abortRef \in Sends /\ send[abortRef] \in Turns /\ Turn(abortRef) /\ send[abortRef].pc \in InFlight
  BY InvTypes DEF UIInv, Locked, Cancel
<1>2. PICK x : x = abortRef  OBVIOUS
<1>3. PICK w : w = [send[x] EXCEPT !.aborted = TRUE]  OBVIOUS
<1>4. send' = [send EXCEPT ![x] = w]  BY <1>1, <1>2, <1>3, UIConstants DEF Cancel
<1>5. w.pc = send[x].pc /\ w.stored = send[x].stored /\ w.out = send[x].out /\ w.sid = send[x].sid
      /\ w.aborted
  BY <1>1, <1>2, <1>3 DEF Turns
<1>6. send[x].pc = "created" => send[x].sid # None  BY <1>1, <1>2 DEF UIInv, Named
<1>7. send'[x] = w /\ Steady /\ Named' /\ \A y \in Sends : Turn(y)'
  <2>1. w.out => w.pc \in {"asking", "done"}  BY <1>1, <1>2, <1>5 DEF Turn
  <2>2. (w.stored => w.out) /\ w.pc # "idle"  BY <1>1, <1>2, <1>5 DEF Turn, InFlight
  <2>3. QED  BY <1>1, <1>2, <1>4, <1>5, <1>6, <2>1, <2>2, OneSend DEF Cancel
<1>8. Fetches'  BY <1>7, FetchesKept DEF Cancel, server, provider, effect
<1>9. Locked'  BY <1>1, <1>2, <1>5, <1>7 DEF Cancel, Finish, Locked
<1>10. QED  BY <1>7, <1>8, <1>9 DEF UIInv

\* The requests and the lock stay as they are; the fetches may change.
LEMMA FetchStep ==
    ASSUME UIInv, TypeOK', UNCHANGED <<send, page>>, Named', Fetches'
    PROVE  UIInv'
<1>1. Locked'  BY DEF UIInv, Locked, page
<1>2. QED  BY <1>1, SendsKept DEF UIInv

LEMMA LoadInv ==
    ASSUME UIInv, TypeOK', NEW l \in loads, LoadRead(l) \/ LoadAnswered(l) \/ LoadFails(l)
    PROVE  UIInv'
<1>1. l \in Loads /\ l.conv \in Convs  BY InvTypes DEF Loads
<1>2. PICK k : k = [l EXCEPT !.pc = "read", !.rows = rows[l.conv]]  OBVIOUS
<1>3. k.live = l.live /\ k.conv = l.conv /\ k.rows = rows[l.conv]  BY <1>1, <1>2 DEF Loads
<1>4. loads' \subseteq loads \cup {k} /\ UNCHANGED <<server, effectId, send, page, click>>
  BY <1>2 DEF LoadRead, LoadAnswered, LoadFails
<1>5. Fetches'  BY <1>1, <1>3, <1>4 DEF UIInv, Fetches, Of, server
<1>6. Named'  BY <1>4 DEF UIInv, Named
<1>7. QED  BY <1>4, <1>5, <1>6, FetchStep

LEMMA EffectInv ==
    ASSUME UIInv, TypeOK', UNCHANGED <<server, page, send, click>>, NEW c, RunEffect(c)
    PROVE  UIInv'
<1>1. Fetches'  BY FetchesEffect DEF server
<1>2. Named'  BY DEF UIInv, Named
<1>3. QED  BY <1>1, <1>2, FetchStep

LEMMA StayInv ==
    ASSUME UIInv, TypeOK', UNCHANGED <<rows, effectId, loads, page, send>>, Named'
    PROVE  UIInv'
<1>1. Fetches'  BY SendsKept, FetchesKept
<1>2. QED  BY <1>1, FetchStep

LEMMA DeleteInv ==
    ASSUME UIInv, TypeOK', NEW k \in Clicks, ServerDeletes(k) \/ DeleteDone(k)
    PROVE  UIInv'
<1>1. click \in [Clicks -> ClickStates] /\ rows \in [Convs -> SUBSET Sends]  BY InvTypes
<1>2. ASSUME NEW p, click' = [click EXCEPT ![k].pc = p], click[k].kind = "delete", send' = send PROVE Named'
  <2>1. click'[k] = [click[k] EXCEPT !.pc = p] /\ \A j \in Clicks \ {k} : click'[j] = click[j]
    BY <1>1, <1>2
  <2>2. click[k] \in ClickStates  BY <1>1
  <2>3. click'[k].kind = "delete"  BY <1>2, <2>1, <2>2 DEF ClickStates
  <2>4. QED  BY <1>2, <2>1, <2>3 DEF UIInv, Named
<1>3. CASE ServerDeletes(k)
  <2>1. \A c \in Convs : rows'[c] \subseteq rows[c]  BY <1>1, <1>3 DEF ServerDeletes
  <2>2. UNCHANGED <<effectId, loads, send, page>>  BY <1>3 DEF ServerDeletes, provider, effect
  <2>3. Fetches'  BY <2>1, <2>2 DEF UIInv, Fetches, Of
  <2>4. Named'  BY <1>2, <1>3 DEF ServerDeletes
  <2>5. QED  BY <2>2, <2>3, <2>4, FetchStep
<1>4. CASE DeleteDone(k)
  <2>1. Named' /\ UNCHANGED <<rows, send, page>>  BY <1>2, <1>4 DEF DeleteDone, server
  <2>2. QED  BY <1>4, <2>1, StayInv DEF DeleteDone, effect
<1>5. QED  BY <1>3, <1>4

LEMMA UIInit == Init => UIInv
<1> SUFFICES ASSUME Init PROVE UIInv  OBVIOUS
<1>1. TypeOK
  <2>1. Start \in Ids /\ ToSet(Start) \subseteq Convs  BY UIConstants, ElementOfSeq DEF Ids, ToSet
  <2>2. <<>> \in Ids  BY EmptySeq DEF Ids
  <2>3. send \in [Sends -> Turns]  BY DEF Init, Turns
  <2>4. click \in [Clicks -> ClickStates]  BY <2>2 DEF Init, ClickStates
  <2>5. picks \in 0..MaxPicks  BY UIConstants DEF Init
  <2>6. ServerTypes /\ StateTypes  BY <2>1, <2>2 DEF Init, ServerTypes, StateTypes
  <2>7. ShownType /\ EffectTypes /\ PageTypes /\ ListType
    BY <2>2 DEF Init, ShownType, EffectTypes, PageTypes, ListType
  <2>8. QED  BY <2>3, <2>4, <2>5, <2>6, <2>7, TypeParts
<1>2. Named /\ (\A x \in Sends : Turn(x)) /\ Locked  BY DEF Init, Named, Turn, Locked, InFlight
<1>3. Fetches  BY DEF Init, Fetches, Of
<1>4. QED  BY <1>1, <1>2, <1>3 DEF UIInv

LEMMA UINext == UIInv /\ [Next]_vars => UIInv'
<1> SUFFICES ASSUME UIInv, [Next]_vars PROVE UIInv'  OBVIOUS
<1>0. TypeOK' /\ click \in [Clicks -> ClickStates]  BY TypeSteps, TypeParts DEF UIInv
<1>1. ASSUME UNCHANGED <<send, click>> PROVE Named'  BY <1>1 DEF UIInv, Named
<1>2. ASSUME NEW k \in Clicks, NEW w, click' = [click EXCEPT ![k] = w], send' = send,
             ~(w.pc = "read" /\ w.kind = "new" /\ w.conv = None)
      PROVE  Named'
  <2>1. click'[k] = w /\ \A j \in Clicks \ {k} : click'[j] = click[j]  BY <1>0, <1>2
  <2>2. QED  BY <1>2, <2>1 DEF UIInv, Named
<1>3. CASE ListRead \/ ListAnswered \/ ListFails \/ Paint
  <2>1. UNCHANGED <<rows, effectId, loads, page, send, click>>
    BY <1>3 DEF ListRead, ListAnswered, ListFails, Paint, server, provider, effect
  <2>2. QED  BY <1>0, <1>1, <2>1, StayInv
<1>4. CASE Effect
  BY <1>0, <1>4, EffectInv DEF Effect
<1>5. ASSUME NEW l \in loads, LoadRead(l) \/ LoadAnswered(l) \/ LoadFails(l) PROVE UIInv'
  BY <1>0, <1>5, LoadInv
<1>6. ASSUME NEW c \in Convs, Select(c) PROVE UIInv'
  <2>1. UNCHANGED <<server, page, send, click>> /\ (UNCHANGED <<messages, effect>> \/ RunEffect(c))
    BY <1>6 DEF Select
  <2>2. CASE UNCHANGED effect  BY <1>0, <1>1, <2>1, <2>2, StayInv DEF server, effect
  <2>3. CASE RunEffect(c)  BY <1>0, <2>1, <2>3, EffectInv
  <2>4. QED  BY <2>1, <2>2, <2>3
<1>7. ASSUME NEW x \in Sends, Request(x) PROVE UIInv'
  <2>1. ASSUME NEW c \in Convs, ServerCreates(x, c) PROVE UIInv'  BY <1>0, <2>1, ServerCreatesInv
  <2>2. CASE Created(x)  BY <1>0, <2>2, CreatedInv
  <2>3. CASE Answered(x) \/ Aborted(x) \/ Fails(x)
    <3>1. send[x].pc \in InFlight /\ Conclude(x)  BY <2>3 DEF Answered, Aborted, Fails, Lost, InFlight
    <3>2. QED  BY <1>0, <3>1, ConcludeInv
  <2>4. QED  BY <1>7, <2>1, <2>2, <2>3 DEF Request
<1>8. ASSUME NEW k \in Clicks, ClickNew(k) PROVE UIInv'
  <2>1. PICK w : w = [click[k] EXCEPT !.pc = "asked", !.kind = "new"]  OBVIOUS
  <2>2. w.pc = "asked"  BY <1>0, <2>1 DEF ClickStates
  <2>3. click' = [click EXCEPT ![k] = w]  BY <1>8, <2>1 DEF ClickNew
  <2>4. Named'  BY <1>2, <1>8, <2>2, <2>3 DEF ClickNew
  <2>5. QED  BY <1>0, <1>8, <2>4, StayInv DEF ClickNew, server, provider, effect
<1>9. ASSUME NEW k \in Clicks, NEW c \in Convs, ClickDelete(k, c) PROVE UIInv'
  <2>1. PICK w : w = [pc |-> "asked", kind |-> "delete", conv |-> c, active |-> shown.active,
                      list |-> shown.list]
    OBVIOUS
  <2>2. w.pc = "asked" /\ click' = [click EXCEPT ![k] = w]  BY <1>9, <2>1 DEF ClickDelete
  <2>3. Named'  BY <1>2, <1>9, <2>2 DEF ClickDelete
  <2>4. QED  BY <1>0, <1>9, <2>3, StayInv DEF ClickDelete, server, provider, effect
<1>10. ASSUME NEW k \in Clicks, NEW c \in Convs, ServerNew(k, c) PROVE UIInv'
  <2>1. PICK w : w = [click[k] EXCEPT !.pc = "read", !.conv = c]  OBVIOUS
  <2>2. w.conv = c /\ c # None  BY <1>0, <2>1, UIConstants DEF ClickStates
  <2>3. click' = [click EXCEPT ![k] = w]  BY <1>10, <2>1 DEF ServerNew
  <2>4. Named'  BY <1>2, <1>10, <2>2, <2>3 DEF ServerNew
  <2>5. QED  BY <1>0, <1>10, <2>4, StayInv DEF ServerNew, provider, effect
<1>11. ASSUME NEW k \in Clicks, NewDone(k) \/ ClickFails(k) PROVE UIInv'
  <2>1. PICK w : w = [click[k] EXCEPT !.pc = "done"]  OBVIOUS
  <2>2. w.pc = "done"  BY <1>0, <2>1 DEF ClickStates
  <2>3. click' = [click EXCEPT ![k] = w]  BY <1>11, <2>1 DEF NewDone, ClickFails
  <2>4. Named'  BY <1>2, <1>11, <2>2, <2>3 DEF NewDone, ClickFails
  <2>5. UNCHANGED <<rows, effectId, loads, page, send>>
    BY <1>11 DEF NewDone, ClickFails, server, provider, effect
  <2>6. QED  BY <1>0, <2>4, <2>5, StayInv
<1>12. CASE User
  BY <1>0, <1>6, <1>8, <1>9, <1>12, AskInv, CancelInv DEF User
<1>13. ASSUME NEW k \in Clicks, ServerDeletes(k) \/ DeleteDone(k) PROVE UIInv'
  BY <1>0, <1>13, DeleteInv
<1>14. ASSUME NEW x \in Sends, ServerAnswers(x) PROVE UIInv'  BY <1>0, <1>14, ServerAnswersInv
<1>15. CASE UNCHANGED vars
  BY <1>0, <1>1, <1>15, StayInv DEF vars, server, provider, effect
<1>16. QED
  BY <1>3, <1>4, <1>5, <1>7, <1>10, <1>11, <1>12, <1>13, <1>14, <1>15 DEF Next

LEMMA UIInvariance == Spec => []UIInv
BY UIInit, UINext, PTL DEF Spec

LEMMA LocalIsLocal == \A x \in Sends : Local(x, "user").local /\ Local(x, "assistant").local
BY DEF Local

\* Only the answer to the fetch still listened to adds rows of the server.
LateStep == \A m \in messages' \ messages : ~m.local => send[m.send].sid = effectId

LEMMA LateSteps == UIInv /\ [Next]_vars => LateStep
<1> SUFFICES ASSUME UIInv, [Next]_vars PROVE LateStep  OBVIOUS
<1>1. (\A m \in messages' : m \in messages \/ m.local) => LateStep  BY DEF LateStep
<1>2. messages' = messages \/ messages' = {} => LateStep  BY <1>1
<1>3. \A c : RunEffect(c) => messages' = messages \/ messages' = {}  BY DEF RunEffect
<1>4. ASSUME NEW l \in loads, LoadAnswered(l) PROVE LateStep
  <2>1. Of(l.rows, l.conv) /\ (l.live => l.conv = effectId)  BY DEF UIInv, Fetches
  <2>2. ASSUME l.live, NEW m \in messages' \ messages, ~m.local PROVE send[m.send].sid = effectId
    <3>1. m \in Stored(l.rows)  BY <1>4, <2>2 DEF LoadAnswered
    <3>2. m.send \in l.rows  BY <3>1 DEF Stored
    <3>3. QED  BY <2>1, <2>2, <3>2 DEF Of
  <2>3. CASE l.live  BY <2>2, <2>3 DEF LateStep
  <2>4. CASE ~l.live  BY <1>2, <1>4, <2>4 DEF LoadAnswered
  <2>5. QED  BY <2>3, <2>4
<1>5. ASSUME NEW l \in loads, LoadRead(l) \/ LoadFails(l) PROVE LateStep
  BY <1>2, <1>5 DEF LoadRead, LoadFails, state
<1>6. ASSUME NEW x \in Sends, Request(x) PROVE LateStep
  BY <1>1, <1>2, <1>6, LocalIsLocal
  DEF Request, ServerCreates, Created, Answered, Aborted, Fails, Conclude, provider, state
<1>7. CASE User
  <2>1. ASSUME NEW x \in Sends, Ask(x) PROVE LateStep
    BY <1>1, <2>1, LocalIsLocal DEF Ask, Submit
  <2>2. ASSUME NEW c \in Convs, Select(c) PROVE LateStep  BY <1>2, <1>3, <2>2 DEF Select
  <2>3. CASE Cancel  BY <1>2, <2>3 DEF Cancel, provider, state
  <2>4. ASSUME NEW k \in Clicks, ClickNew(k) \/ \E c \in Convs : ClickDelete(k, c) PROVE LateStep
    BY <1>2, <2>4 DEF ClickNew, ClickDelete, provider, state
  <2>5. QED  BY <1>7, <2>1, <2>2, <2>3, <2>4 DEF User
<1>8. CASE Paint \/ Effect \/ ListRead \/ ListAnswered \/ ListFails
  BY <1>2, <1>3, <1>8 DEF Paint, Effect, ListRead, ListAnswered, ListFails, provider, state
<1>9. ASSUME NEW k \in Clicks, (\E c \in Convs : ServerNew(k, c)) \/ ServerDeletes(k) \/ NewDone(k)
                               \/ DeleteDone(k) \/ ClickFails(k)
      PROVE  LateStep
  BY <1>2, <1>9 DEF ServerNew, ServerDeletes, NewDone, DeleteDone, ClickFails, provider, state
<1>10. ASSUME NEW x \in Sends, ServerAnswers(x) PROVE LateStep
  BY <1>2, <1>10 DEF ServerAnswers, provider, state
<1>11. CASE UNCHANGED vars  BY <1>2, <1>11 DEF vars, provider, state
<1>12. QED  BY <1>4, <1>5, <1>6, <1>7, <1>8, <1>9, <1>10, <1>11 DEF Next

\* Every list, id and record of the client keeps its type however the server's
\* answers are ordered; no conversation is shown before its id has arrived.
THEOREM UITypes == Spec => []TypeOK
<1>1. UIInv => TypeOK  BY DEF UIInv
<1>2. QED  BY <1>1, UIInvariance, PTL

\* Rows of an older fetch never enter the transcript once the effect of another
\* conversation has run, for any number of fetches under way.
THEOREM LateFetchesIgnored == Spec => LateFetchIgnored
<1>1. UIInv /\ [Next]_vars => [LateStep]_vars  BY LateSteps
<1>2. [LateStep]_vars <=> [\A m \in messages' \ messages : ~m.local => send[m.send].sid = effectId]_vars
  BY DEF LateStep
<1>3. QED  BY <1>1, <1>2, UIInvariance, PTL DEF Spec, LateFetchIgnored

\* A locked composer holds a question Cancel can still abort; before the first
\* cancel every question under way is that one.
THEOREM CancelReaches == Spec => []CancelReachesSend
<1>1. UIInv => CancelReachesSend
  <2>1. SUFFICES ASSUME UIInv PROVE CancelReachesSend  OBVIOUS
  <2>2. \A x \in Sends : x # None  BY UIConstants
  <2>3. QED  BY <2>1, <2>2 DEF UIInv, Locked, CancelReachesSend
<1>2. QED  BY <1>1, UIInvariance, PTL

=============================================================================
