--------------------------- MODULE ChatTurns_proofs ---------------------------
(***************************************************************************)
(* Machine-checked proofs about ChatTurns, for any number of users,        *)
(* sessions, concurrent turns, route calls and crashes.                    *)
(***************************************************************************)
EXTENDS ChatTurns, TLAPS

(***************************************************************************)
(* Type correctness.                                                       *)
(***************************************************************************)

\* The row a turn writes has the type of a messages row.
LEMMA RowType ==
    ASSUME TypeOK, NEW t \in Turns, Durable(t),
           NEW role \in {"user", "assistant"}, NEW c \in Calls \cup {None}
    PROVE  Row(t, role, c) \in MsgRows
BY DEF Row, MsgRows, TypeOK, Durable, TurnRecords

\* What either store yields as prior state is a call or None.
LEMMA PriorType ==
    ASSUME TypeOK, NEW s
    PROVE  LastResolved(s) \in Calls \cup {None}
<1> DEFINE rows == {m \in Resolved(s) : \A n \in Resolved(s) : n.at =< m.at}
<1>1. rows \subseteq MsgRows  BY DEF Resolved, TypeOK
<1>2. CASE rows = {}  BY <1>2 DEF LastResolved, CallOf
<1>3. CASE rows # {}
  <2>1. (CHOOSE m \in rows : TRUE) \in rows  BY <1>3
  <2>2. (CHOOSE m \in rows : TRUE).call \in Calls \cup {None}  BY <1>1, <2>1 DEF MsgRows
  <2>3. QED  BY <1>3, <2>2 DEF LastResolved, CallOf
<1>4. QED  BY <1>2, <1>3

\* TypeOK alone is not inductive: a row's session id is a Sids only because a
\* turn that persists is durable, and an edit in progress names a session.
TypeInv ==
    /\ TypeOK
    /\ \A t \in Turns : turn[t].pc \in Writing \cup Committing \cup {"owner"} => Durable(t)
    /\ \A e \in Edits : edit[e].pc # "idle" => edit[e].user \in Users /\ edit[e].sid \in Sids

LEMMA TypeInit == Init => TypeInv
<1> SUFFICES ASSUME Init PROVE TypeInv  OBVIOUS
<1> USE DEF Init
<1>1. turn \in [Turns -> TurnRecords]  BY DEF TurnRecords, Responses
<1>2. edit \in [Edits -> EditRecords]  BY DEF EditRecords, Codes
<1>3. sess \in [Sids -> SessRows \cup {None}] /\ eph \in [Sids -> Calls \cup {None}]  OBVIOUS
<1>4. disk \in [sess : [Sids -> SessRows \cup {None}], msgs : SUBSET MsgRows]  BY <1>3
<1>5. crashes \in 0..MaxCrashes  BY ChatConstants
<1>6. TypeOK  BY <1>1, <1>2, <1>3, <1>4, <1>5 DEF TypeOK
<1>7. QED  BY <1>6 DEF TypeInv, Writing, Committing

\* A change of one turn's record that keeps who asked, or made before it asks.
LEMMA TurnChange ==
    ASSUME TypeInv, NEW t \in Turns, NEW r \in TurnRecords,
           turn' = [turn EXCEPT ![t] = r], UNCHANGED <<now, used, sess, msgs, disk, edit, crashes>>,
           eph' \in [Sids -> Calls \cup {None}],
           r.pc \in Writing \cup Committing \cup {"owner"} => r.user # None /\ r.sid # None
    PROVE  TypeInv'
<1>1. TypeOK'  BY DEF TypeInv, TypeOK
<1>2. QED  BY <1>1 DEF TypeInv, TypeOK, Durable

\* The three updates of a turn's record that change several fields.
LEMMA SendRecord ==
    ASSUME NEW r \in TurnRecords, NEW u \in Users \cup {None}, NEW s \in Sids \cup {None},
           NEW seen \in SUBSET Turns, NEW pc \in {"owner", "translate"}
    PROVE  [r EXCEPT !.user = u, !.sid = s, !.seen = seen, !.pc = pc] \in TurnRecords
BY ZenonT(60) DEF TurnRecords, Thinking

LEMMA RespondRecord ==
    ASSUME NEW r \in TurnRecords, NEW resp \in Responses, NEW pc \in {"pUser", "done"}
    PROVE  [r EXCEPT !.resp = resp, !.pc = pc] \in TurnRecords
BY ZenonT(60) DEF TurnRecords, Writing

LEMMA ResolveRecord ==
    ASSUME NEW r \in TurnRecords, NEW call \in Calls
    PROVE  [r EXCEPT !.call = call, !.pc = "dispatch"] \in TurnRecords
BY ZenonT(60) DEF TurnRecords, Thinking

LEMMA CommitRecord ==
    ASSUME NEW r \in TurnRecords, NEW pc \in {"pAsst", "pTouch", "pTitle", "done", "lost"},
           NEW saved \in BOOLEAN
    PROVE  /\ [r EXCEPT !.pc = pc, !.saved = saved] \in TurnRecords
           /\ [r EXCEPT !.pc = pc] \in TurnRecords
<1>1. [r EXCEPT !.pc = pc, !.saved = saved] \in TurnRecords
  BY ZenonT(60) DEF TurnRecords, Writing
<1>2. [r EXCEPT !.pc = pc] \in TurnRecords
  BY SMTT(30) DEF TurnRecords, Writing
<1>3. QED  BY <1>1, <1>2

\* The updates of a route call's record, and who it is for.
LEMMA SendEditRecord ==
    ASSUME NEW r \in EditRecords, NEW k \in {"rename", "delete"}, NEW u \in Users, NEW s \in Sids
    PROVE  [r EXCEPT !.kind = k, !.user = u, !.sid = s, !.pc = "belongs"] \in EditRecords
BY DEF EditRecords

LEMMA RespondType ==
    ASSUME TypeInv, NEW t \in Turns, NEW r \in Responses, Respond(t, r),
           UNCHANGED <<now, used, sess, msgs, disk, edit, crashes>>,
           eph' \in [Sids -> Calls \cup {None}]
    PROVE  TypeInv'
<1>1. PICK pc \in {"pUser", "done"} :
        turn' = [turn EXCEPT ![t] = [turn[t] EXCEPT !.resp = r, !.pc = pc]]
        /\ (pc = "pUser" => turn[t].user # None /\ turn[t].sid # None)
  BY DEF Respond, Durable
<1> DEFINE new == [turn[t] EXCEPT !.resp = r, !.pc = pc]
<1>2. turn[t] \in TurnRecords  BY DEF TypeInv, TypeOK
<1>3. new \in TurnRecords  BY <1>2, RespondRecord
<1>4. turn' = [turn EXCEPT ![t] = new]  BY <1>1
<1>5. new.user = turn[t].user /\ new.sid = turn[t].sid /\ new.pc = pc  BY <1>2 DEF TurnRecords
<1> HIDE DEF new
<1>6. QED  BY <1>1, <1>3, <1>4, <1>5, TurnChange DEF Writing, Committing

\* The steps of a query that touch no table.
LEMMA TypeThinking ==
    ASSUME TypeInv, NEW t \in Turns,
           \/ \E u \in Users \cup {None}, s \in Sids \cup {None} : Send(t, u, s)
           \/ CheckOwner(t) \/ Translate(t) \/ ReadPrior(t) \/ Resolve(t) \/ Dispatch(t)
           \/ Raise(t) \/ PersistFails(t)
    PROVE  TypeInv'
<1> USE DEF DbUnchanged, Go
<1>0. turn[t] \in TurnRecords  BY DEF TypeInv, TypeOK
<1>1. CASE \E u \in Users \cup {None}, s \in Sids \cup {None} : Send(t, u, s)
  <2>1. PICK u \in Users \cup {None}, s \in Sids \cup {None} : Send(t, u, s)  BY <1>1
  <2>2. PICK seen \in SUBSET Turns, pc \in {"owner", "translate"} :
          turn' = [turn EXCEPT ![t] = [turn[t] EXCEPT !.user = u, !.sid = s, !.seen = seen, !.pc = pc]]
          /\ (pc = "owner" => u # None /\ s # None)
    BY <2>1, ZenonT(60) DEF Send, Answered
  <2> DEFINE new == [turn[t] EXCEPT !.user = u, !.sid = s, !.seen = seen, !.pc = pc]
  <2>3. new \in TurnRecords  BY <1>0, SendRecord
  <2>4. turn' = [turn EXCEPT ![t] = new]  BY <2>2
  <2>5. eph' \in [Sids -> Calls \cup {None}]  BY <2>1 DEF Send, TypeInv, TypeOK
  <2>6. new.pc = pc /\ new.user = u /\ new.sid = s  BY <1>0 DEF TurnRecords
  <2>7. pc \notin Writing \cup Committing  BY DEF Writing, Committing
  <2> HIDE DEF new
  <2>8. QED  BY <2>1, <2>2, <2>3, <2>4, <2>5, <2>6, <2>7, TurnChange DEF Send
<1>2. CASE CheckOwner(t)  BY <1>2 DEF CheckOwner, Durable, TypeInv, TypeOK, TurnRecords, Thinking, Writing, Committing, Responses
<1>3. CASE Translate(t)
  <2>1. CASE Go(t, "prior")  BY <1>3, <2>1, SMTT(30) DEF Translate, Durable, TypeInv, TypeOK, TurnRecords, Thinking, Writing, Committing
  <2>2. CASE Respond(t, "error") \/ Respond(t, "chain")
    BY <1>3, <2>2, RespondType DEF Translate, Responses, TypeInv, TypeOK
  <2>3. QED  BY <1>3, <2>1, <2>2 DEF Translate
<1>4. CASE ReadPrior(t)
  <2>1. LastResolved(turn[t].sid) \in Calls \cup {None}  BY PriorType DEF TypeInv
  <2>2. QED  BY <1>4, <2>1, SMTT(30) DEF ReadPrior, Durable, TypeInv, TypeOK, TurnRecords, Thinking, Writing, Committing
<1>5. CASE Resolve(t)
  <2>1. CASE \E r \in {"clarify", "error"} : Respond(t, r)
    BY <1>5, <2>1, RespondType DEF Resolve, Responses, TypeInv, TypeOK
  <2>2. CASE \E b \in Turns \cup {None} :
          turn' = [turn EXCEPT ![t].call = [turn |-> t, base |-> b], ![t].pc = "dispatch"]
    <3>1. PICK b \in Turns \cup {None} :
            turn' = [turn EXCEPT ![t].call = [turn |-> t, base |-> b], ![t].pc = "dispatch"]
      BY <2>2
    <3> DEFINE new == [turn[t] EXCEPT !.call = [turn |-> t, base |-> b], !.pc = "dispatch"]
    <3>2. [turn |-> t, base |-> b] \in Calls  BY DEF Calls
    <3>3. new \in TurnRecords  BY <1>0, <3>2, ResolveRecord
    <3>4. turn' = [turn EXCEPT ![t] = new]  BY <3>1
    <3>5. new.pc = "dispatch"  BY <1>0 DEF TurnRecords
    <3> HIDE DEF new
    <3>6. QED  BY <1>5, <3>3, <3>4, <3>5, TurnChange DEF Resolve, TypeInv, TypeOK, Writing, Committing
  <2>3. turn[t].prior # None => turn[t].prior.turn \in Turns  BY <1>0 DEF Calls, TurnRecords
  <2>4. QED  BY <1>5, <2>1, <2>2, <2>3 DEF Resolve
<1>6. CASE Dispatch(t)
  <2>1. eph' \in [Sids -> Calls \cup {None}]  BY <1>0, <1>6 DEF Dispatch, TypeInv, TypeOK, TurnRecords
  <2>2. QED  BY <1>6, <2>1, RespondType DEF Dispatch, Responses
<1>7. CASE Raise(t)  BY <1>7 DEF Raise, Durable, Responses, TypeInv, TypeOK, TurnRecords, Thinking, Writing, Committing
<1>8. CASE PersistFails(t)  BY <1>8 DEF PersistFails, Durable, TypeInv, TypeOK, TurnRecords, Thinking, Writing, Committing
<1>9. QED  BY <1>1, <1>2, <1>3, <1>4, <1>5, <1>6, <1>7, <1>8

\* A turn that persists moves on, and stays typed and durable.
LEMMA GoPersist ==
    ASSUME TypeInv, NEW t \in Turns, turn[t].pc \in Writing \cup Committing,
           NEW pc \in Writing \cup Committing \cup {"done"}, Go(t, pc)
    PROVE  /\ turn' \in [Turns -> TurnRecords]
           /\ \A x \in Turns : turn'[x].pc \in Writing \cup Committing \cup {"owner"} => Durable(x)'
<1>1. turn[t] \in TurnRecords  BY DEF TypeInv, TypeOK
<1>2. [turn[t] EXCEPT !.pc = pc] \in TurnRecords  BY <1>1 DEF TurnRecords
<1>3. [turn[t] EXCEPT !.pc = pc].user = turn[t].user /\ [turn[t] EXCEPT !.pc = pc].sid = turn[t].sid
  BY <1>1 DEF TurnRecords
<1>4. QED  BY <1>2, <1>3 DEF Go, TypeInv, TypeOK, Durable

\* The steps of _persist_turn and the session routes: they change the tables.
LEMMA TypePersist ==
    ASSUME TypeInv, NEW t \in Turns,
           InsertUser(t) \/ InsertAssistant(t) \/ Touch(t) \/ AutoTitle(t) \/ Commit(t)
    PROVE  TypeInv'
<1> USE DEF TypeInv, TypeOK, Writing, Committing
<1>0. turn[t] \in TurnRecords  OBVIOUS
<1>1. turn[t].pc \in Writing \cup Committing => Durable(t) /\ turn[t].sid \in Sids
  BY DEF Durable, TurnRecords
<1>2. ASSUME NEW from, NEW to, NEW role \in {"user", "assistant"}, NEW c \in Calls \cup {None},
             from \in Writing, to \in Committing, Insert(t, from, to, Row(t, role, c))
      PROVE  TypeInv'
  <2>1. Row(t, role, c) \in MsgRows  BY <1>1, <1>2, RowType DEF Insert
  <2>2. turn[t].pc \in Writing /\ (Go(t, to) \/ Go(t, "done"))  BY <1>2 DEF Insert
  <2>3. /\ turn' \in [Turns -> TurnRecords]
        /\ \A x \in Turns : turn'[x].pc \in Writing \cup Committing \cup {"owner"} => Durable(x)'
    BY <1>2, <2>2, GoPersist
  <2>4. msgs' \subseteq MsgRows /\ now' \in Nat  BY <1>2, <2>1 DEF Insert
  <2>5. QED  BY <1>2, <2>3, <2>4 DEF Insert
<1>3. CASE InsertUser(t)  BY <1>2, <1>3 DEF InsertUser
<1>4. CASE InsertAssistant(t)
  <2>1. StoredCall(t) \in Calls \cup {None}  BY DEF StoredCall, TurnRecords
  <2>2. QED  BY <1>2, <1>4, <2>1 DEF InsertAssistant
<1>5. CASE Touch(t)
  <2>1. sess' \in [Sids -> SessRows \cup {None}]  BY <1>1, <1>5 DEF Touch, Owned, SessRows
  <2>2. turn[t].pc \in Writing /\ Go(t, "cTouch")  BY <1>5 DEF Touch
  <2>3. QED  BY <1>5, <2>1, <2>2, GoPersist DEF Touch
<1>6. CASE AutoTitle(t)
  <2>1. sess' \in [Sids -> SessRows \cup {None}]
    BY <1>1, <1>6 DEF AutoTitle, Owned, SessRows, Titles
  <2>2. turn[t].pc \in Writing /\ Go(t, "cTitle")  BY <1>6 DEF AutoTitle
  <2>3. QED  BY <1>6, <2>1, <2>2, GoPersist DEF AutoTitle
<1>7. CASE Commit(t)
  <2>1. disk' \in [sess : [Sids -> SessRows \cup {None}], msgs : SUBSET MsgRows]
    BY <1>7 DEF Commit, CommitAll
  <2>2. AfterCommit(turn[t].pc) \in {"pAsst", "pTouch", "pTitle", "done"}  BY DEF AfterCommit
  <2>3. PICK pc \in {"pAsst", "pTouch", "pTitle", "done"}, b \in BOOLEAN :
          turn' = [turn EXCEPT ![t] = [turn[t] EXCEPT !.pc = pc, !.saved = b]]
    BY <1>7, <2>2 DEF Commit
  <2>4. [turn[t] EXCEPT !.pc = pc, !.saved = b] \in TurnRecords  BY <1>0, CommitRecord
  <2>5. turn' \in [Turns -> TurnRecords]  BY <2>3, <2>4
  <2>6. \A x \in Turns : turn'[x].pc \in Writing \cup Committing \cup {"owner"} => Durable(x)'
    BY <1>1, <1>7, <2>3 DEF Durable, Commit, TurnRecords
  <2>7. QED  BY <1>7, <2>1, <2>5, <2>6 DEF Commit
<1>8. QED  BY <1>3, <1>4, <1>5, <1>6, <1>7

\* A step of one route call: its record changes, and typed tables.
LEMMA EditChange ==
    ASSUME TypeInv, NEW e \in Edits, NEW r \in EditRecords, edit' = [edit EXCEPT ![e] = r],
           r.user \in Users, r.sid \in Sids, UNCHANGED <<now, used, eph, turn, crashes>>,
           sess' \in [Sids -> SessRows \cup {None}], msgs' \subseteq MsgRows,
           disk' \in [sess : [Sids -> SessRows \cup {None}], msgs : SUBSET MsgRows]
    PROVE  TypeInv'
<1>1. TypeOK'  BY DEF TypeInv, TypeOK
<1>2. \A x \in Edits : edit'[x].pc # "idle" => edit'[x].user \in Users /\ edit'[x].sid \in Sids
  BY DEF TypeInv, TypeOK
<1>3. \A t \in Turns : turn'[t].pc \in Writing \cup Committing \cup {"owner"} => Durable(t)'
  BY DEF TypeInv, Durable
<1>4. QED  BY <1>1, <1>2, <1>3 DEF TypeInv

LEMMA TypeCreate ==
    ASSUME TypeInv, NEW u \in Users, NEW s \in Sids, NEW title \in {None, "given"},
           Create(u, s, title)
    PROVE  TypeInv'
<1> USE DEF TypeInv, TypeOK
<1>1. [owner |-> u, title |-> title, active |-> now] \in SessRows  BY DEF SessRows, Titles
<1>2. sess' \in [Sids -> SessRows \cup {None}]  BY <1>1 DEF Create
<1>3. disk' \in [sess : [Sids -> SessRows \cup {None}], msgs : SUBSET MsgRows]
  BY <1>2 DEF Create, CommitAll
<1>4. QED  BY <1>2, <1>3 DEF Create, Durable

LEMMA TypeEditSend ==
    ASSUME TypeInv, NEW e \in Edits, NEW k \in {"rename", "delete"}, NEW u \in Users, NEW s \in Sids,
           EditSend(e, k, u, s)
    PROVE  TypeInv'
<1> DEFINE new == [edit[e] EXCEPT !.kind = k, !.user = u, !.sid = s, !.pc = "belongs"]
<1>1. edit[e] \in EditRecords  BY DEF TypeInv, TypeOK
<1>2. new \in EditRecords  BY <1>1, SendEditRecord
<1>3. new.user = u /\ new.sid = s  BY <1>1 DEF EditRecords
<1>4. edit' = [edit EXCEPT ![e] = new]  BY DEF EditSend
<1>5. /\ UNCHANGED <<now, used, eph, turn, crashes>>
      /\ sess' \in [Sids -> SessRows \cup {None}] /\ msgs' \subseteq MsgRows
      /\ disk' \in [sess : [Sids -> SessRows \cup {None}], msgs : SUBSET MsgRows]
  BY DEF EditSend, EditUnchanged, DbUnchanged, TypeInv, TypeOK
<1> HIDE DEF new
<1>6. QED  BY <1>2, <1>3, <1>4, <1>5, EditChange

LEMMA TypeEditStep ==
    ASSUME TypeInv, NEW e \in Edits, EditStep(e)
    PROVE  TypeInv'
<1>1. edit[e] \in EditRecords /\ edit[e].user \in Users /\ edit[e].sid \in Sids
  BY DEF TypeInv, TypeOK, EditStep, EditBelongs, EditLoad, EditWrite, EditCommit, EditReread
<1>2. UNCHANGED <<now, used, eph, turn, crashes>>
  BY DEF EditStep, EditBelongs, EditLoad, EditWrite, EditCommit, EditReread, EditUnchanged, DbUnchanged
<1>3. /\ sess' \in [Sids -> SessRows \cup {None}] /\ msgs' \subseteq MsgRows
      /\ disk' \in [sess : [Sids -> SessRows \cup {None}], msgs : SUBSET MsgRows]
  <2> USE DEF TypeInv, TypeOK
  <2>1. CASE EditBelongs(e) \/ EditLoad(e) \/ EditReread(e)
    BY <2>1 DEF EditBelongs, EditLoad, EditReread, EditUnchanged, DbUnchanged
  <2>2. CASE EditWrite(e)
    <3>1. sess' \in [Sids -> SessRows \cup {None}]
      BY <1>1, <2>2 DEF EditWrite, Owned, SessRows, Titles
    <3>2. msgs' \subseteq MsgRows  BY <2>2 DEF EditWrite, Cascade
    <3>3. QED  BY <2>2, <3>1, <3>2 DEF EditWrite
  <2>3. CASE EditCommit(e)  BY <2>3 DEF EditCommit, CommitAll
  <2>4. QED  BY <2>1, <2>2, <2>3 DEF EditStep
<1> DEFINE R(new) == /\ new \in EditRecords /\ new.user \in Users /\ new.sid \in Sids
                     /\ edit' = [edit EXCEPT ![e] = new]
<1>4. ASSUME NEW pc \in {"load", "write", "commit", "reread"}, edit' = [edit EXCEPT ![e].pc = pc]
      PROVE  \E new : R(new)
  <2>1. R([edit[e] EXCEPT !.pc = pc])  BY <1>1, <1>4 DEF EditRecords
  <2>2. QED  BY <2>1
<1>5. ASSUME NEW code \in Codes, Reply(e, code)
      PROVE  \E new : R(new)
  <2>1. R([edit[e] EXCEPT !.code = code, !.pc = "done"])  BY <1>1, <1>5 DEF Reply, EditRecords
  <2>2. QED  BY <2>1
<1>6. \E new : R(new)
  <2> HIDE DEF R
  <2>1. CASE EditBelongs(e) \/ EditLoad(e)
    BY <2>1, <1>4, <1>5 DEF EditBelongs, EditLoad, Codes
  <2>2. CASE EditWrite(e)
    <3>1. PICK hit \in BOOLEAN : edit' = [edit EXCEPT ![e].hit = hit, ![e].pc = "commit"]
      BY <2>2 DEF EditWrite, Owned
    <3>2. R([edit[e] EXCEPT !.hit = hit, !.pc = "commit"])  BY <1>1, <3>1 DEF R, EditRecords
    <3>3. QED  BY <3>2
  <2>3. CASE EditCommit(e)  BY <2>3, <1>4, <1>5 DEF EditCommit, Codes
  <2>4. CASE EditReread(e)  BY <2>4, <1>5 DEF EditReread, Codes
  <2>5. QED  BY <2>1, <2>2, <2>3, <2>4 DEF EditStep
<1>7. QED  BY <1>2, <1>3, <1>6, EditChange

LEMMA TypeCrash ==
    ASSUME TypeInv, Crash \/ \E s \in Sids : Forget(s)
    PROVE  TypeInv'
<1> USE DEF TypeInv, TypeOK, Durable
<1>1. CASE Crash
  <2>1. turn' \in [Turns -> TurnRecords]  BY <1>1, CommitRecord DEF Crash
  <2>2. edit' \in [Edits -> EditRecords]
    <3>1. ASSUME NEW e \in Edits PROVE [edit[e] EXCEPT !.pc = "lost"] \in EditRecords
      <4>1. edit[e] \in EditRecords  OBVIOUS
      <4>2. QED  BY <4>1 DEF EditRecords
    <3>2. QED  BY <1>1, <3>1 DEF Crash
  <2>3. crashes' \in 0..MaxCrashes  BY <1>1, ChatConstants DEF Crash
  <2>4. \A t \in Turns : turn'[t].pc \notin Writing \cup Committing \cup {"owner"}
    BY <1>1, <2>1 DEF Crash, TurnRecords, Writing, Committing
  <2>5. \A e \in Edits : edit'[e].user = edit[e].user /\ edit'[e].sid = edit[e].sid
                        /\ (edit[e].pc = "idle" => edit'[e].pc = "idle")
    BY <1>1 DEF Crash, EditRecords
  <2>6. QED  BY <1>1, <2>1, <2>2, <2>3, <2>4, <2>5 DEF Crash
<1>2. CASE \E s \in Sids : Forget(s)  BY <1>2 DEF Forget, DbUnchanged
<1>3. QED  BY <1>1, <1>2

LEMMA TypeNext == TypeInv /\ [Next]_vars => TypeInv'
<1> SUFFICES ASSUME TypeInv, [Next]_vars PROVE TypeInv'  OBVIOUS
<1>1. CASE Client  BY <1>1, TypeThinking, TypeCreate, TypeEditSend DEF Client
<1>2. CASE \E t \in Turns : Progress(t) \/ Raise(t) \/ PersistFails(t)
  BY <1>2, TypeThinking, TypePersist DEF Progress
<1>3. CASE \E e \in Edits : EditStep(e)  BY <1>3, TypeEditStep
<1>4. CASE Crash \/ \E s \in Sids : Forget(s)  BY <1>4, TypeCrash
<1>5. CASE UNCHANGED vars  BY <1>5 DEF vars, TypeInv, TypeOK, Durable
<1>6. QED  BY <1>1, <1>2, <1>3, <1>4, <1>5 DEF Next

\* Every variable keeps its type, whatever interleaving of turns, route calls,
\* failures and crashes occurs.
THEOREM TypeCorrect == Spec => []TypeOK
<1>1. TypeInv => TypeOK  BY DEF TypeInv
<1>2. QED  BY <1>1, TypeInit, TypeNext, PTL DEF Spec

(***************************************************************************)
(* Integrity of the conversations.  None of the three invariants is        *)
(* inductive: each row is written several awaits after the check that      *)
(* justifies it, so the induction carries, for every turn in flight, what  *)
(* is still known of its session, and the same facts about the tables as   *)
(* last committed, which a crash brings back.                              *)
(***************************************************************************)

\* What holds of one row m of table ms, with sessions ss, turns tn and clock n.
RowOk(m, ss, ms, tn, n) ==
    /\ ss[m.sid] # None /\ ss[m.sid].owner = tn[m.turn].user
    /\ m.at < n
    /\ tn[m.turn].sid = m.sid /\ tn[m.turn].pc # "idle"
    /\ m.call # None => m.call.turn = m.turn /\ tn[m.turn].resp = "ok"
    /\ m.role = "assistant" =>
          \E q \in ms : q.role = "user" /\ q.turn = m.turn /\ q.sid = m.sid /\ q.at < m.at

Tidy(ss, ms, tn, n) == \A m \in ms : RowOk(m, ss, ms, tn, n)

\* A session id in a table was handed out.
Issued(ss, ids) == \A s \in Sids : ss[s] # None => s \in ids

\* What a turn in flight still knows of its session, and of what it wrote.
InFlight(t) ==
    /\ turn[t].resp = "ok" => turn[t].pc \notin Thinking \cup {"idle"}
    /\ turn[t].pc = "idle" => turn[t].prior = None
    /\ turn[t].call # None => turn[t].call.turn = t
    /\ Durable(t) /\ turn[t].pc \in (Thinking \ {"owner"}) \cup Writing \cup Committing =>
          /\ turn[t].sid \in used
          /\ sess[turn[t].sid] # None => sess[turn[t].sid].owner = turn[t].user
    /\ turn[t].pc \in {"cUser", "pAsst"} /\ sess[turn[t].sid] # None =>
          \E q \in msgs : q.role = "user" /\ q.turn = t /\ q.sid = turn[t].sid

EphemeralOk ==
    \A s \in Sids : eph[s] # None =>
        LET x == turn[eph[s].turn] IN x.sid = s /\ x.user = None /\ x.resp = "ok"

IInv ==
    /\ TypeInv
    /\ Issued(sess, used) /\ Issued(disk.sess, used)
    /\ Tidy(sess, msgs, turn, now) /\ Tidy(disk.sess, disk.msgs, turn, now)
    /\ \A t \in Turns : InFlight(t)
    /\ EphemeralOk
    /\ PriorOfSameConversation

-----------------------------------------------------------------------------
(* Facts about the tables alone: what keeps them tidy. *)

\* From tn to tn2 no turn changes who asked, or takes back a success.
Keeps(tn, tn2) ==
    \A x \in Turns : tn[x].pc # "idle" =>
        /\ tn2[x].user = tn[x].user /\ tn2[x].sid = tn[x].sid /\ tn2[x].pc # "idle"
        /\ tn[x].resp = "ok" => tn2[x].resp = "ok"

LEMMA TidyFrame ==
    ASSUME NEW ss, NEW ss2, NEW ms, ms \subseteq MsgRows, NEW tn, NEW tn2, Keeps(tn, tn2),
           NEW n \in Nat, NEW n2 \in Nat, n =< n2, Tidy(ss, ms, tn, n),
           \A s \in Sids : ss[s] # None => ss2[s] # None /\ ss2[s].owner = ss[s].owner
    PROVE  Tidy(ss2, ms, tn2, n2)
<1> SUFFICES ASSUME NEW m \in ms PROVE RowOk(m, ss2, ms, tn2, n2)  BY DEF Tidy
<1>1. RowOk(m, ss, ms, tn, n)  BY DEF Tidy
<1>2. m.sid \in Sids /\ m.turn \in Turns /\ m.at \in Nat  BY DEF MsgRows
<1>3. m.at < n2  BY <1>1, <1>2 DEF RowOk
<1>4. QED  BY <1>1, <1>2, <1>3 DEF RowOk, Keeps

LEMMA TidyAdd ==
    ASSUME NEW ss, NEW ms, NEW tn, NEW n, NEW row, Tidy(ss, ms, tn, n), RowOk(row, ss, ms, tn, n)
    PROVE  Tidy(ss, ms \cup {row}, tn, n)
BY DEF Tidy, RowOk

LEMMA TidyDelete ==
    ASSUME NEW ss \in [Sids -> SessRows \cup {None}], NEW ms, ms \subseteq MsgRows, NEW tn, NEW n,
           NEW s \in Sids, Tidy(ss, ms, tn, n)
    PROVE  Tidy([ss EXCEPT ![s] = None], {m \in ms : m.sid # s}, tn, n)
<1> DEFINE ss2 == [ss EXCEPT ![s] = None]
           ms2 == {m \in ms : m.sid # s}
<1> SUFFICES ASSUME NEW m \in ms2 PROVE RowOk(m, ss2, ms2, tn, n)  BY DEF Tidy
<1>1. RowOk(m, ss, ms, tn, n) /\ m.sid # s /\ m.sid \in Sids  BY DEF Tidy, MsgRows
<1>2. ss2[m.sid] = ss[m.sid]  BY <1>1
<1>3. QED  BY <1>1, <1>2 DEF RowOk

\* A turn that does not move keeps what it knows while sessions are only
\* created with fresh ids, deleted with their messages, renamed or touched.
LEMMA FlightFrame ==
    ASSUME NEW x \in Turns, InFlight(x),
           used \subseteq used',
           \A s \in used : sess'[s] # None => sess[s] # None /\ sess'[s].owner = sess[s].owner,
           \A q \in msgs : q \in msgs' \/ sess'[q.sid] = None,
           turn'[x] = turn[x], turn[x].pc \in Writing \cup Committing => Durable(x)
    PROVE  InFlight(x)'
BY DEF InFlight, Durable, Thinking, Writing, Committing

\* A step of one turn that touches no table.
LEMMA TurnOnly ==
    ASSUME IInv, TypeInv', NEW t \in Turns, UNCHANGED <<now, used, sess, msgs, disk>>,
           \A x \in Turns : x # t => turn'[x] = turn[x],
           Keeps(turn, turn'), InFlight(t)', EphemeralOk',
           turn'[t].prior # None =>
               LET p == turn[turn'[t].prior.turn]
               IN  p.sid = turn'[t].sid /\ p.user = turn'[t].user /\ p.resp = "ok"
    PROVE  IInv'
<1>1. Tidy(sess, msgs, turn', now) /\ Tidy(disk.sess, disk.msgs, turn', now)
  BY TidyFrame DEF IInv, TypeInv, TypeOK
<1>2. ASSUME NEW x \in Turns PROVE InFlight(x)'
  <2>1. CASE x = t  BY <2>1
  <2>2. CASE x # t  BY <2>2, FlightFrame DEF IInv, TypeInv, TypeOK, Issued
  <2>3. QED  BY <2>1, <2>2
<1>3. PriorOfSameConversation'
  <2> SUFFICES ASSUME NEW x \in Turns, turn'[x].prior # None
               PROVE  LET p == turn'[turn'[x].prior.turn]
                      IN  p.sid = turn'[x].sid /\ p.user = turn'[x].user /\ p.resp = "ok"
    BY DEF PriorOfSameConversation
  <2>1. turn'[x].prior.turn \in Turns  BY DEF TypeInv, TypeOK, TurnRecords, Calls
  <2> DEFINE p == turn[turn'[x].prior.turn]
  <2>2. p.sid = turn'[x].sid /\ p.user = turn'[x].user /\ p.resp = "ok"
    BY DEF IInv, PriorOfSameConversation
  <2>3. p.pc # "idle"  BY <2>1, <2>2 DEF IInv, InFlight
  <2>4. QED  BY <2>1, <2>2, <2>3 DEF Keeps
<1>4. QED  BY <1>1, <1>2, <1>3 DEF IInv, Issued

\* The in-memory store stays right while no success is taken back.
LEMMA EphemeralKept ==
    ASSUME IInv, NEW t \in Turns, Keeps(turn, turn'),
           eph' = eph \/ \E s \in Sids : eph' = [eph EXCEPT ![s] = None]
    PROVE  EphemeralOk'
<1> SUFFICES ASSUME NEW s \in Sids, eph'[s] # None
             PROVE  LET x == turn'[eph'[s].turn] IN x.sid = s /\ x.user = None /\ x.resp = "ok"
  BY DEF EphemeralOk
<1>1. eph'[s] = eph[s] /\ eph[s].turn \in Turns  BY DEF IInv, TypeInv, TypeOK, Calls
<1>2. QED  BY <1>1 DEF IInv, EphemeralOk, InFlight, Keeps

\* What ReadPrior finds: a successful turn of the same user and conversation.
LEMMA PriorFound ==
    ASSUME IInv, NEW t \in Turns, Durable(t), turn[t].pc = "prior", LastResolved(turn[t].sid) # None
    PROVE  LET p == turn[LastResolved(turn[t].sid).turn]
           IN  p.sid = turn[t].sid /\ p.user = turn[t].user /\ p.resp = "ok"
<1> DEFINE s == turn[t].sid
           rows == {m \in Resolved(s) : \A n \in Resolved(s) : n.at =< m.at}
           m == CHOOSE r \in rows : TRUE
<1>1. rows # {} /\ LastResolved(s) = m.call  BY DEF LastResolved, CallOf
<1>2. m \in rows  BY <1>1
<1>3. m \in msgs /\ m.sid = s /\ m.call # None  BY <1>2 DEF Resolved
<1>4. RowOk(m, sess, msgs, turn, now)  BY <1>3 DEF IInv, Tidy
<1>5. sess[s] # None /\ sess[s].owner = turn[t].user
  BY <1>3, <1>4, ZenonT(60) DEF RowOk, IInv, InFlight, Thinking
<1>6. QED  BY <1>1, <1>3, <1>4, <1>5 DEF RowOk

\* Resolve, field by field.
LEMMA ResolveFields ==
    ASSUME TypeInv, NEW t \in Turns, Resolve(t)
    PROVE  /\ turn'[t].user = turn[t].user /\ turn'[t].sid = turn[t].sid
           /\ turn'[t].prior = turn[t].prior /\ turn'[t].pc \in {"pUser", "done", "dispatch"}
           /\ turn'[t].resp \in {turn[t].resp, "clarify", "error"}
           /\ turn'[t].call = turn[t].call \/ turn'[t].call.turn = t
<1>1. turn[t] \in TurnRecords /\ turn \in [Turns -> TurnRecords]  BY DEF TypeInv, TypeOK
<1>2. CASE \E r \in {"clarify", "error"} : Respond(t, r)
  <2>1. PICK r \in {"clarify", "error"}, pc \in {"pUser", "done"} :
          turn' = [turn EXCEPT ![t] = [turn[t] EXCEPT !.resp = r, !.pc = pc]]
    BY <1>2 DEF Respond
  <2>2. turn'[t] = [turn[t] EXCEPT !.resp = r, !.pc = pc]  BY <1>1, <2>1
  <2>3. QED  BY <1>1, <2>2 DEF TurnRecords
<1>3. CASE \E b : turn' = [turn EXCEPT ![t].call = [turn |-> t, base |-> b], ![t].pc = "dispatch"]
  <2>1. PICK b : turn' = [turn EXCEPT ![t] =
                            [turn[t] EXCEPT !.call = [turn |-> t, base |-> b], !.pc = "dispatch"]]
    BY <1>3
  <2>2. turn'[t] = [turn[t] EXCEPT !.call = [turn |-> t, base |-> b], !.pc = "dispatch"]
    BY <1>1, <2>1
  <2>3. QED  BY <1>1, <2>2 DEF TurnRecords
<1>4. QED  BY <1>2, <1>3 DEF Resolve

LEMMA IndThinking ==
    ASSUME IInv, TypeInv', NEW t \in Turns,
           \/ \E u \in Users \cup {None}, s \in Sids \cup {None} : Send(t, u, s)
           \/ CheckOwner(t) \/ Translate(t) \/ ReadPrior(t) \/ Resolve(t) \/ Dispatch(t)
           \/ Raise(t) \/ PersistFails(t)
    PROVE  IInv'
<1> USE DEF DbUnchanged, Go, Respond
<1>0. turn[t] \in TurnRecords /\ TypeInv /\ turn \in [Turns -> TurnRecords]
  BY DEF IInv, TypeInv, TypeOK
<1>1. UNCHANGED <<now, used, sess, msgs, disk>> /\ \A x \in Turns : x # t => turn'[x] = turn[x]
  BY <1>0 DEF Send, CheckOwner, Translate, ReadPrior, Resolve, Dispatch, Raise, PersistFails
<1>2. InFlight(t)  BY DEF IInv
<1>3. Keeps(turn, turn')
  <2>1. CASE turn[t].pc = "idle"  BY <1>0, <1>1, <2>1 DEF Keeps
  <2>2. CASE turn[t].pc # "idle"
    <3>1. CASE Resolve(t)
      <4>1. turn[t].resp # "ok"  BY <1>2, <3>1 DEF Resolve, InFlight, Thinking
      <4>2. QED  BY <1>0, <1>1, <3>1, <4>1, ResolveFields DEF Keeps
    <3>2. CASE ~Resolve(t)
      <4>1. turn'[t].user = turn[t].user /\ turn'[t].sid = turn[t].sid /\ turn'[t].pc # "idle"
        <5>1. CASE CheckOwner(t)  BY <1>0, <5>1 DEF TurnRecords, CheckOwner
        <5>2. CASE Translate(t)  BY <1>0, <5>2 DEF TurnRecords, Translate
        <5>3. CASE ReadPrior(t)  BY <1>0, <5>3 DEF TurnRecords, ReadPrior
        <5>4. CASE Dispatch(t)  BY <1>0, <5>4 DEF TurnRecords, Dispatch
        <5>5. CASE Raise(t) \/ PersistFails(t)  BY <1>0, <5>5 DEF TurnRecords, Raise, PersistFails
        <5>6. QED  BY <2>2, <3>2, <5>1, <5>2, <5>3, <5>4, <5>5 DEF Send
      <4>2. turn[t].resp = "ok" => turn'[t].resp = "ok"
        <5>1. CASE PersistFails(t)  BY <1>0, <5>1 DEF TurnRecords, PersistFails
        <5>2. CASE ~PersistFails(t)
          <6>1. turn[t].pc \in Thinking
            BY <2>2, <3>2, <5>2 DEF Thinking, Send, CheckOwner, Translate, ReadPrior, Dispatch, Raise
          <6>2. QED  BY <1>2, <6>1 DEF InFlight
        <5>3. QED  BY <5>1, <5>2
      <4>3. QED  BY <1>0, <1>1, <4>1, <4>2 DEF Keeps
    <3>3. QED  BY <3>1, <3>2
  <2>3. QED  BY <2>1, <2>2
<1>4. CASE \E u \in Users \cup {None}, s \in Sids \cup {None} : Send(t, u, s)
  <2>1. PICK u \in Users \cup {None}, s \in Sids \cup {None} : Send(t, u, s)  BY <1>4
  <2>2. turn[t].pc = "idle" /\ eph' = eph  BY <2>1 DEF Send
  <2>3. /\ turn'[t].prior = turn[t].prior /\ turn'[t].call = turn[t].call
        /\ turn'[t].resp = turn[t].resp /\ turn'[t].pc \in {"owner", "translate"}
    BY <1>0, <2>1 DEF Send, TurnRecords
  <2>4. turn'[t].pc = "translate" => ~Durable(t)'
    BY <1>0, <2>1 DEF Send, TurnRecords, Durable
  <2>5. turn'[t].prior = None  BY <1>2, <2>2, <2>3 DEF InFlight
  <2>6. InFlight(t)'
    BY <1>2, <2>2, <2>3, <2>4 DEF InFlight, Thinking, Writing, Committing
  <2>7. QED  BY <1>1, <1>3, <2>2, <2>5, <2>6, EphemeralKept, TurnOnly
<1>5. CASE CheckOwner(t)
  <2>1. turn'[t].prior = turn[t].prior /\ turn'[t].sid = turn[t].sid /\ turn'[t].user = turn[t].user
        /\ eph' = eph
    BY <1>0, <1>5 DEF CheckOwner, TurnRecords
  <2>2. sess[turn[t].sid] # None => turn[t].sid \in used
    BY <1>0, <1>5 DEF IInv, Issued, CheckOwner, TypeInv, Durable, TurnRecords
  <2>3. InFlight(t)'
    BY <1>0, <1>2, <1>5, <2>2 DEF CheckOwner, session_belongs_to_user, Owned, InFlight, TurnRecords,
                                   Durable, Thinking, Writing, Committing
  <2>4. QED  BY <1>1, <1>3, <2>1, <2>3, EphemeralKept, TurnOnly DEF IInv, PriorOfSameConversation
<1>6. CASE Translate(t) \/ Raise(t) \/ PersistFails(t)
  <2>1. turn'[t].prior = turn[t].prior /\ turn'[t].sid = turn[t].sid /\ turn'[t].user = turn[t].user
        /\ eph' = eph
    BY <1>0, <1>6 DEF Translate, Raise, PersistFails, TurnRecords
  <2>2. InFlight(t)'
    BY <1>0, <1>2, <1>6 DEF Translate, Raise, PersistFails, InFlight, TurnRecords, Durable, Thinking,
                            Writing, Committing
  <2>3. QED  BY <1>1, <1>3, <2>1, <2>2, EphemeralKept, TurnOnly DEF IInv, PriorOfSameConversation
<1>7. CASE ReadPrior(t)
  <2>1. turn'[t].sid = turn[t].sid /\ turn'[t].user = turn[t].user /\ eph' = eph
    BY <1>0, <1>7 DEF ReadPrior
  <2>2. InFlight(t)'
    BY <1>0, <1>2, <1>7 DEF ReadPrior, InFlight, TurnRecords, Durable, Thinking, Writing, Committing
  <2>3. CASE Durable(t)
    <3>1. turn'[t].prior = LastResolved(turn[t].sid)  BY <1>0, <1>7, <2>3 DEF ReadPrior
    <3>2. turn[t].pc = "prior"  BY <1>7 DEF ReadPrior
    <3>3. QED  BY <1>1, <1>3, <2>1, <2>2, <2>3, <3>1, <3>2, PriorFound, EphemeralKept, TurnOnly
  <2>4. CASE ~Durable(t) /\ turn[t].sid # None
    <3>1. turn'[t].prior = eph[turn[t].sid] /\ turn[t].user = None /\ turn[t].sid \in Sids
      BY <1>0, <1>7, <2>4 DEF ReadPrior, Durable, TurnRecords
    <3>2. QED  BY <1>1, <1>3, <2>1, <2>2, <3>1, EphemeralKept, TurnOnly DEF IInv, EphemeralOk
  <2>5. CASE ~Durable(t) /\ turn[t].sid = None
    <3>1. turn'[t].prior = None  BY <1>0, <1>7, <2>5 DEF ReadPrior
    <3>2. QED  BY <1>1, <1>3, <2>1, <2>2, <3>1, EphemeralKept, TurnOnly
  <2>6. QED  BY <2>3, <2>4, <2>5
<1>8. CASE Resolve(t)
  <2>1. eph' = eph /\ turn[t].pc = "resolve" /\ turn[t].resp # "ok"
    BY <1>2, <1>8 DEF Resolve, InFlight, Thinking
  <2>2. InFlight(t)'
    BY <1>0, <1>1, <1>2, <1>8, <2>1, ResolveFields
    DEF InFlight, Durable, Thinking, Writing, Committing
  <2>3. QED
    BY <1>0, <1>1, <1>3, <1>8, <2>1, <2>2, ResolveFields, EphemeralKept, TurnOnly
    DEF IInv, PriorOfSameConversation
<1>9. CASE Dispatch(t)
  <2>1. turn'[t].prior = turn[t].prior /\ turn'[t].sid = turn[t].sid /\ turn'[t].user = turn[t].user
    BY <1>0, <1>9 DEF Dispatch, TurnRecords
  <2>2. InFlight(t)'
    BY <1>0, <1>2, <1>9 DEF Dispatch, InFlight, TurnRecords, Durable, Thinking, Writing, Committing
  <2>3. EphemeralOk'
    <3>1. CASE eph' = eph  BY <1>3, <3>1, EphemeralKept
    <3>2. CASE eph' # eph
      <4>1. /\ eph' = [eph EXCEPT ![turn[t].sid] = turn[t].call]
            /\ turn'[t].resp = "ok" /\ turn[t].user = None /\ turn[t].sid \in Sids
        BY <1>0, <1>9, <3>2 DEF Dispatch, Durable, TurnRecords
      <4>2. turn[t].call # None => turn[t].call.turn = t  BY <1>2 DEF InFlight
      <4>3. \A s \in Sids : s # turn[t].sid => eph'[s] = eph[s]
        BY <1>0, <4>1 DEF TypeInv, TypeOK
      <4>4. eph'[turn[t].sid] = turn[t].call  BY <1>0, <4>1 DEF TypeInv, TypeOK
      <4>5. ASSUME NEW s \in Sids, eph'[s] # None
            PROVE  LET x == turn'[eph'[s].turn] IN x.sid = s /\ x.user = None /\ x.resp = "ok"
        <5>1. CASE s = turn[t].sid  BY <2>1, <4>1, <4>2, <4>4, <4>5, <5>1
        <5>2. CASE s # turn[t].sid
          <6>1. eph'[s] = eph[s] /\ eph[s].turn \in Turns
            BY <1>0, <4>3, <4>5, <5>2 DEF TypeInv, TypeOK, Calls
          <6>2. QED  BY <1>3, <4>5, <6>1 DEF IInv, EphemeralOk, InFlight, Keeps
        <5>3. QED  BY <5>1, <5>2
      <4>6. QED  BY <4>5 DEF EphemeralOk
    <3>3. QED  BY <3>1, <3>2
  <2>4. QED  BY <1>1, <1>3, <2>1, <2>2, <2>3, TurnOnly DEF IInv, PriorOfSameConversation
<1>10. QED  BY <1>4, <1>5, <1>6, <1>7, <1>8, <1>9

-----------------------------------------------------------------------------
(* Steps that write the tables. *)

\* A step of turn t that moves its pc and changes no other field but `saved`.
Moves(t) ==
    /\ \A x \in Turns : x # t => turn'[x] = turn[x]
    /\ turn'[t].user = turn[t].user /\ turn'[t].sid = turn[t].sid
    /\ turn'[t].prior = turn[t].prior /\ turn'[t].call = turn[t].call
    /\ turn'[t].resp = turn[t].resp
    /\ turn[t].pc \in Writing \cup Committing
    /\ turn'[t].pc \in Writing \cup Committing \cup {"done"}

LEMMA MovesKeeps ==
    ASSUME IInv, TypeInv', NEW t \in Turns, Moves(t), eph' = eph
    PROVE  Keeps(turn, turn') /\ EphemeralOk' /\ PriorOfSameConversation'
<1>1. Keeps(turn, turn')  BY DEF Moves, Keeps, Writing, Committing
<1>2. EphemeralOk'  BY <1>1, EphemeralKept
<1>3. ASSUME NEW x \in Turns, turn'[x].prior # None
      PROVE  LET p == turn'[turn'[x].prior.turn]
             IN  p.sid = turn'[x].sid /\ p.user = turn'[x].user /\ p.resp = "ok"
  <2>1. turn'[x].prior = turn[x].prior /\ turn'[x].sid = turn[x].sid /\ turn'[x].user = turn[x].user
    BY DEF Moves
  <2>2. turn[x].prior.turn \in Turns
    BY <1>3, <2>1 DEF IInv, TypeInv, TypeOK, TurnRecords, Calls
  <2>3. QED  BY <1>1, <1>3, <2>1, <2>2 DEF IInv, PriorOfSameConversation, Keeps, InFlight
<1>4. QED  BY <1>1, <1>2, <1>3 DEF PriorOfSameConversation

LEMMA IndInsert ==
    ASSUME IInv, TypeInv', NEW t \in Turns, InsertUser(t) \/ InsertAssistant(t)
    PROVE  IInv'
<1>0. /\ TypeInv /\ turn[t] \in TurnRecords /\ turn \in [Turns -> TurnRecords] /\ InFlight(t)
      /\ now \in Nat /\ msgs \subseteq MsgRows
  BY DEF IInv, TypeInv, TypeOK
<1>1. UNCHANGED <<used, sess, disk, eph>>  BY DEF InsertUser, InsertAssistant, Insert
<1>2. Moves(t)
  BY <1>0 DEF Moves, InsertUser, InsertAssistant, Insert, Go, TurnRecords, Writing, Committing
<1>3. Keeps(turn, turn') /\ EphemeralOk' /\ PriorOfSameConversation'  BY <1>1, <1>2, MovesKeeps
<1>4. Durable(t) /\ turn[t].sid \in Sids
  BY <1>0 DEF TypeInv, InsertUser, InsertAssistant, Insert, Writing, Durable, TurnRecords
<1>5. now' \in Nat /\ now =< now' /\ msgs \subseteq msgs'
  BY <1>0 DEF InsertUser, InsertAssistant, Insert
<1>6. Tidy(sess, msgs, turn', now') /\ Tidy(disk.sess, disk.msgs, turn', now')
  BY <1>0, <1>3, <1>5, TidyFrame DEF IInv, TypeInv, TypeOK
<1>7. Tidy(sess, msgs', turn', now')
  <2>1. CASE sess[turn[t].sid] = None
    BY <1>6, <2>1 DEF InsertUser, InsertAssistant, Insert, ForeignKey
  <2>2. CASE sess[turn[t].sid] # None
    <3>1. sess[turn[t].sid].owner = turn[t].user
      BY <1>0, <1>4, <2>2 DEF InFlight, InsertUser, InsertAssistant, Insert, Writing
    <3>2. CASE InsertUser(t)
      <4> DEFINE row == Row(t, "user", None)
      <4>1. msgs' = msgs \cup {row} /\ now' = now + 1
        BY <2>2, <3>2 DEF InsertUser, Insert, ForeignKey
      <4>2. RowOk(row, sess, msgs, turn', now')
        BY <1>0, <1>2, <2>2, <3>1, <4>1 DEF RowOk, Row, Moves, Writing, Committing
      <4>3. QED  BY <1>6, <4>1, <4>2, TidyAdd
    <3>3. CASE InsertAssistant(t)
      <4> DEFINE row == Row(t, "assistant", StoredCall(t))
      <4>1. msgs' = msgs \cup {row} /\ now' = now + 1 /\ turn[t].pc = "pAsst"
        BY <2>2, <3>3 DEF InsertAssistant, Insert, ForeignKey
      <4>2. PICK q \in msgs : q.role = "user" /\ q.turn = t /\ q.sid = turn[t].sid
        BY <1>0, <2>2, <4>1 DEF InFlight
      <4>3. q.at < now  BY <4>2 DEF IInv, Tidy, RowOk
      <4>4. StoredCall(t) # None => StoredCall(t).turn = t /\ turn[t].resp = "ok"
        BY <1>0 DEF StoredCall, InFlight
      <4>5. RowOk(row, sess, msgs, turn', now')
        BY <1>0, <1>2, <2>2, <3>1, <4>1, <4>2, <4>3, <4>4 DEF RowOk, Row, Moves, Writing, Committing
      <4>6. QED  BY <1>6, <4>1, <4>5, TidyAdd
    <3>4. QED  BY <3>2, <3>3
  <2>3. QED  BY <2>1, <2>2
<1>8. ASSUME NEW x \in Turns PROVE InFlight(x)'
  <2>1. CASE x # t
    BY <1>1, <1>2, <1>5, <2>1, FlightFrame DEF IInv, TypeInv, Moves, Issued
  <2>2. CASE x = t
    <3>1. /\ turn'[t].resp = "ok" => turn'[t].pc \notin Thinking \cup {"idle"}
          /\ turn'[t].pc # "idle" /\ (turn'[t].call # None => turn'[t].call.turn = t)
      BY <1>0, <1>2 DEF Moves, InFlight, Thinking, Writing, Committing
    <3>2. /\ turn[t].sid \in used
          /\ sess[turn[t].sid] # None => sess[turn[t].sid].owner = turn[t].user
      BY <1>0, <1>2, <1>4 DEF InFlight, Moves
    <3>3. turn'[t].pc \in {"cUser", "pAsst"} /\ sess[turn[t].sid] # None =>
            \E q \in msgs' : q.role = "user" /\ q.turn = t /\ q.sid = turn[t].sid
      <4>1. CASE InsertUser(t)
        <5>1. sess[turn[t].sid] # None => Row(t, "user", None) \in msgs'
          BY <4>1 DEF InsertUser, Insert, ForeignKey
        <5>2. QED  BY <5>1 DEF Row
      <4>2. CASE InsertAssistant(t)
        BY <1>0, <4>2 DEF InsertAssistant, Insert, ForeignKey, Go, TurnRecords
      <4>3. QED  BY <4>1, <4>2
    <3>4. QED  BY <1>1, <1>2, <2>2, <3>1, <3>2, <3>3 DEF InFlight, Moves
  <2>3. QED  BY <2>1, <2>2
<1>9. QED  BY <1>1, <1>3, <1>6, <1>7, <1>8 DEF IInv, Issued

\* No session appears or disappears, and none changes hands.
SameOwners ==
    \A s \in Sids : /\ sess[s] # None => sess'[s] # None /\ sess'[s].owner = sess[s].owner
                    /\ sess'[s] # None => sess[s] # None

\* An UPDATE of one session's row.
LEMMA RowUpdate ==
    ASSUME sess \in [Sids -> SessRows \cup {None}], NEW s \in Sids, sess[s] # None,
           NEW a \in Nat, NEW title \in Titles,
           \/ sess' = [sess EXCEPT ![s] = [sess[s] EXCEPT !.active = a]]
           \/ sess' = [sess EXCEPT ![s] = [sess[s] EXCEPT !.title = title]]
    PROVE  SameOwners
<1>1. sess[s] \in SessRows  OBVIOUS
<1>2. [sess[s] EXCEPT !.active = a] \in SessRows /\ [sess[s] EXCEPT !.active = a].owner = sess[s].owner
  BY <1>1 DEF SessRows
<1>3. [sess[s] EXCEPT !.title = title] \in SessRows /\ [sess[s] EXCEPT !.title = title].owner = sess[s].owner
  BY <1>1 DEF SessRows
<1>4. None \notin SessRows  BY ChatConstants
<1>5. sess'[s] # None /\ sess'[s].owner = sess[s].owner  BY <1>2, <1>3, <1>4
<1>6. \A x \in Sids : x # s => sess'[x] = sess[x]  OBVIOUS
<1>7. QED  BY <1>5, <1>6 DEF SameOwners

LEMMA IndUpdate ==
    ASSUME IInv, TypeInv', NEW t \in Turns, Touch(t) \/ AutoTitle(t) \/ Commit(t)
    PROVE  IInv'
<1>0. /\ TypeInv /\ turn[t] \in TurnRecords /\ turn \in [Turns -> TurnRecords] /\ InFlight(t)
      /\ now \in Nat /\ sess \in [Sids -> SessRows \cup {None}]
  BY DEF IInv, TypeInv, TypeOK
<1>1. UNCHANGED <<used, msgs, eph>> /\ now' \in Nat /\ now =< now'
  BY <1>0 DEF Touch, AutoTitle, Commit
<1>2. Moves(t)
  <2>1. CASE Touch(t) \/ AutoTitle(t)
    BY <1>0, <2>1 DEF Moves, Touch, AutoTitle, Go, TurnRecords, Writing, Committing
  <2>2. CASE Commit(t)
    <3>1. AfterCommit(turn[t].pc) \in {"pAsst", "pTouch", "pTitle", "done"}  BY DEF AfterCommit
    <3>2. PICK pc \in {"pAsst", "pTouch", "pTitle", "done"}, b \in BOOLEAN :
            turn' = [turn EXCEPT ![t] = [turn[t] EXCEPT !.pc = pc, !.saved = b]]
      BY <2>2, <3>1 DEF Commit
    <3>3. turn'[t] = [turn[t] EXCEPT !.pc = pc, !.saved = b]  BY <1>0, <3>2
    <3>4. turn[t].pc \in Committing /\ \A x \in Turns : x # t => turn'[x] = turn[x]
      BY <1>0, <2>2, <3>2 DEF Commit
    <3>5. QED  BY <1>0, <3>3, <3>4 DEF Moves, TurnRecords, Writing
  <2>3. QED  BY <2>1, <2>2
<1>3. Keeps(turn, turn') /\ EphemeralOk' /\ PriorOfSameConversation'  BY <1>1, <1>2, MovesKeeps
<1>4. SameOwners
  <2>1. CASE Touch(t)
    <3>1. \/ sess' = sess
          \/ /\ turn[t].sid \in Sids /\ sess[turn[t].sid] # None
             /\ sess' = [sess EXCEPT ![turn[t].sid] = [sess[turn[t].sid] EXCEPT !.active = now]]
      BY <1>0, <2>1 DEF Touch, Owned, TypeInv, Writing, Durable, TurnRecords
    <3>2. QED  BY <1>0, <3>1, RowUpdate DEF SameOwners, Titles
  <2>2. CASE AutoTitle(t)
    <3>1. \/ sess' = sess
          \/ /\ turn[t].sid \in Sids /\ sess[turn[t].sid] # None
             /\ sess' = [sess EXCEPT ![turn[t].sid] = [sess[turn[t].sid] EXCEPT !.title = t]]
      BY <1>0, <2>2 DEF AutoTitle, Owned, TypeInv, Writing, Durable, TurnRecords
    <3>2. QED  BY <1>0, <3>1, RowUpdate DEF SameOwners, Titles
  <2>3. CASE Commit(t)  BY <2>3 DEF Commit, SameOwners
  <2>4. QED  BY <2>1, <2>2, <2>3
<1>5. Tidy(sess', msgs', turn', now')
  BY <1>0, <1>1, <1>3, <1>4, TidyFrame DEF IInv, TypeInv, TypeOK, SameOwners
<1>6. Tidy(disk.sess, disk.msgs, turn', now')
  BY <1>0, <1>1, <1>3, TidyFrame DEF IInv, TypeInv, TypeOK
<1>7. Issued(sess, used)' /\ Issued(disk.sess, used)' /\ Tidy(disk'.sess, disk'.msgs, turn', now')
  BY <1>1, <1>4, <1>5, <1>6 DEF IInv, Issued, SameOwners, Touch, AutoTitle, Commit, CommitAll
<1>8. ASSUME NEW x \in Turns PROVE InFlight(x)'
  <2>1. CASE x # t
    <3>1. \A s \in used : sess'[s] # None => sess[s] # None /\ sess'[s].owner = sess[s].owner
      BY <1>0, <1>4 DEF TypeInv, TypeOK, SameOwners
    <3>2. QED  BY <1>1, <1>2, <2>1, <3>1, FlightFrame DEF IInv, TypeInv, Moves
  <2>2. CASE x = t
    <3>1. Durable(t) /\ turn[t].sid \in Sids
      BY <1>0, <1>2 DEF TypeInv, Moves, Durable, TurnRecords
    <3>2. /\ turn'[t].resp = "ok" => turn'[t].pc \notin Thinking \cup {"idle"}
          /\ turn'[t].pc # "idle" /\ (turn'[t].call # None => turn'[t].call.turn = t)
      BY <1>0, <1>2 DEF Moves, InFlight, Thinking, Writing, Committing
    <3>3. /\ turn[t].sid \in used
          /\ sess'[turn[t].sid] # None => sess'[turn[t].sid].owner = turn[t].user
      BY <1>0, <1>2, <1>4, <3>1 DEF InFlight, Moves, SameOwners
    <3>4. turn'[t].pc \in {"cUser", "pAsst"} => turn[t].pc = "cUser"
      BY <1>0, <1>2 DEF Touch, AutoTitle, Commit, Go, AfterCommit, Committing, TurnRecords
    <3>5. turn'[t].pc \in {"cUser", "pAsst"} /\ sess'[turn[t].sid] # None =>
            \E q \in msgs : q.role = "user" /\ q.turn = t /\ q.sid = turn[t].sid
      BY <1>0, <1>4, <3>1, <3>4 DEF InFlight, SameOwners
    <3>6. QED  BY <1>1, <1>2, <2>2, <3>2, <3>3, <3>5 DEF InFlight, Moves
  <2>3. QED  BY <2>1, <2>2
<1>9. QED  BY <1>3, <1>5, <1>7, <1>8 DEF IInv

\* A step that leaves the turns and the in-memory store alone.
LEMMA TurnsAlone ==
    ASSUME IInv, TypeInv', UNCHANGED <<turn, eph>>, used \subseteq used',
           \A s \in used : sess'[s] # None => sess[s] # None /\ sess'[s].owner = sess[s].owner,
           \A q \in msgs : q \in msgs' \/ sess'[q.sid] = None,
           Issued(sess, used)', Issued(disk.sess, used)',
           Tidy(sess', msgs', turn, now'), Tidy(disk'.sess, disk'.msgs, turn, now')
    PROVE  IInv'
<1>1. ASSUME NEW x \in Turns PROVE InFlight(x)'
  BY FlightFrame DEF IInv, TypeInv
<1>2. EphemeralOk' /\ PriorOfSameConversation'  BY DEF IInv, EphemeralOk, PriorOfSameConversation
<1>3. QED  BY <1>1, <1>2 DEF IInv

LEMMA IndCreate ==
    ASSUME IInv, TypeInv', NEW u \in Users, NEW s \in Sids, NEW title \in {None, "given"},
           Create(u, s, title)
    PROVE  IInv'
<1>0. /\ now \in Nat /\ now' = now + 1 /\ msgs' = msgs /\ msgs \subseteq MsgRows
      /\ sess \in [Sids -> SessRows \cup {None}] /\ used \subseteq Sids
      /\ UNCHANGED <<turn, eph>> /\ used' = used \cup {s} /\ s \notin used
  BY DEF Create, IInv, TypeInv, TypeOK
<1>1. \A x \in Sids : x # s => sess'[x] = sess[x]  BY <1>0 DEF Create
<1>2. sess[s] = None  BY <1>0 DEF IInv, Issued
<1>3. \A x \in Sids : sess[x] # None => sess'[x] # None /\ sess'[x].owner = sess[x].owner
  BY <1>1, <1>2
<1>4. Keeps(turn, turn)  BY DEF Keeps
<1>5. Tidy(sess', msgs', turn, now')  BY <1>0, <1>3, <1>4, TidyFrame DEF IInv
<1>6. disk' = [sess |-> sess', msgs |-> msgs']  BY DEF Create, CommitAll
<1>7. Issued(sess, used)' /\ Issued(disk.sess, used)'  BY <1>0, <1>1, <1>6 DEF IInv, Issued
<1>8. \A x \in used : sess'[x] # None => sess[x] # None /\ sess'[x].owner = sess[x].owner
  BY <1>0, <1>1
<1>9. QED  BY <1>0, <1>5, <1>6, <1>7, <1>8, TurnsAlone

LEMMA IndEdit ==
    ASSUME IInv, TypeInv', NEW e \in Edits,
           EditStep(e) \/ \E k \in {"rename", "delete"}, u \in Users, s \in Sids : EditSend(e, k, u, s)
    PROVE  IInv'
<1>0. /\ sess \in [Sids -> SessRows \cup {None}] /\ msgs \subseteq MsgRows /\ used \subseteq Sids
      /\ now \in Nat
  BY DEF IInv, TypeInv, TypeOK
<1>1. UNCHANGED <<now, used, turn, eph>>
  BY DEF EditStep, EditBelongs, EditLoad, EditWrite, EditCommit, EditReread, EditSend, EditUnchanged,
         DbUnchanged
<1>2. CASE EditWrite(e)
  <2> DEFINE s == edit[e].sid
  <2>1. s \in Sids /\ disk' = disk  BY <1>2 DEF EditWrite, IInv, TypeInv
  <2>2. CASE sess' = [sess EXCEPT ![s] = None] /\ msgs' = {m \in msgs : m.sid # s}
    <3>1. Tidy(sess', msgs', turn, now)  BY <1>0, <2>1, <2>2, TidyDelete DEF IInv
    <3>2. \A x \in Sids : sess'[x] # None => sess'[x] = sess[x]  BY <1>0, <2>1, <2>2
    <3>3. \A q \in msgs : q \in msgs' \/ sess'[q.sid] = None  BY <1>0, <2>1, <2>2
    <3>4. QED  BY <1>0, <1>1, <2>1, <3>1, <3>2, <3>3, TurnsAlone DEF IInv, Issued
  <2>3. CASE SameOwners /\ msgs' = msgs
    <3>1. Keeps(turn, turn)  BY DEF Keeps
    <3>2. Tidy(sess', msgs, turn, now)  BY <1>0, <2>3, <3>1, TidyFrame DEF IInv, SameOwners
    <3>3. QED  BY <1>0, <1>1, <2>1, <2>3, <3>2, TurnsAlone DEF IInv, Issued, SameOwners
  <2>4. QED
    <3>1. CASE Owned(s, edit[e].user) /\ edit[e].kind = "delete"
      BY <1>2, <2>2, <3>1 DEF EditWrite, Cascade
    <3>2. CASE Owned(s, edit[e].user) /\ edit[e].kind # "delete"
      <4>1. sess' = [sess EXCEPT ![s].title = e] /\ msgs' = msgs  BY <1>2, <3>2 DEF EditWrite
      <4>2. QED  BY <1>0, <2>1, <2>3, <3>2, <4>1, RowUpdate DEF Owned, Titles
    <3>3. CASE ~Owned(s, edit[e].user)  BY <1>2, <2>3, <3>3 DEF EditWrite, SameOwners
    <3>4. QED  BY <3>1, <3>2, <3>3
<1>3. CASE ~EditWrite(e)
  <2>1. sess' = sess /\ msgs' = msgs /\ (disk' = disk \/ disk' = [sess |-> sess, msgs |-> msgs])
    BY <1>3 DEF EditStep, EditBelongs, EditLoad, EditCommit, EditReread, EditSend, EditUnchanged,
                DbUnchanged, CommitAll
  <2>2. QED  BY <1>0, <1>1, <2>1, TurnsAlone DEF IInv, Issued
<1>4. QED  BY <1>2, <1>3

LEMMA IndProcess ==
    ASSUME IInv, TypeInv', Crash \/ \E s \in Sids : Forget(s)
    PROVE  IInv'
<1>1. CASE Crash
  <2>0. turn \in [Turns -> TurnRecords] /\ now \in Nat /\ disk.msgs \subseteq MsgRows
    BY DEF IInv, TypeInv, TypeOK
  <2>1. \A x \in Turns : turn'[x].user = turn[x].user /\ turn'[x].sid = turn[x].sid
          /\ turn'[x].resp = turn[x].resp /\ turn'[x].call = turn[x].call
          /\ turn'[x].prior = turn[x].prior
          /\ (turn[x].pc = "idle" <=> turn'[x].pc = "idle") /\ turn'[x].pc \in {"idle", "done", "lost"}
    BY <1>1, <2>0 DEF Crash, TurnRecords
  <2>2. Keeps(turn, turn')  BY <2>1 DEF Keeps
  <2>3. Tidy(disk.sess, disk.msgs, turn', now)  BY <2>0, <2>2, TidyFrame DEF IInv
  <2>4. ASSUME NEW x \in Turns PROVE InFlight(x)'
    BY <2>1 DEF InFlight, IInv, Thinking, Writing, Committing
  <2>5. EphemeralOk'  BY <1>1 DEF Crash, EphemeralOk
  <2>6. ASSUME NEW x \in Turns, turn'[x].prior # None
        PROVE  LET p == turn'[turn'[x].prior.turn]
               IN  p.sid = turn'[x].sid /\ p.user = turn'[x].user /\ p.resp = "ok"
    <3>1. turn[x].prior # None /\ turn[x].prior.turn \in Turns
      BY <2>0, <2>1, <2>6 DEF TurnRecords, Calls
    <3>2. QED  BY <2>1, <3>1 DEF IInv, PriorOfSameConversation
  <2>7. QED  BY <1>1, <2>3, <2>4, <2>5, <2>6 DEF Crash, IInv, Issued, PriorOfSameConversation
<1>2. CASE \E s \in Sids : Forget(s)
  <2>1. UNCHANGED <<now, used, sess, msgs, disk, turn>>  BY <1>2 DEF Forget, DbUnchanged
  <2>2. \A s \in Sids : eph'[s] = eph[s] \/ eph'[s] = None
    BY <1>2 DEF Forget, IInv, TypeInv, TypeOK
  <2>3. EphemeralOk'  BY <2>1, <2>2 DEF IInv, EphemeralOk
  <2>4. QED  BY <2>1, <2>3 DEF IInv, InFlight, Durable, PriorOfSameConversation
<1>3. QED  BY <1>1, <1>2

LEMMA IndInit == Init => IInv
BY TypeInit DEF Init, IInv, Issued, Tidy, InFlight, EphemeralOk, PriorOfSameConversation, Durable,
                Thinking, Writing, Committing

LEMMA IndNext == IInv /\ [Next]_vars => IInv'
<1> SUFFICES ASSUME IInv, [Next]_vars PROVE IInv'  OBVIOUS
<1>0. TypeInv'  BY TypeNext DEF IInv
<1>1. CASE Client  BY <1>0, <1>1, IndThinking, IndCreate, IndEdit DEF Client
<1>2. CASE \E t \in Turns : Progress(t) \/ Raise(t) \/ PersistFails(t)
  BY <1>0, <1>2, IndThinking, IndInsert, IndUpdate DEF Progress
<1>3. CASE \E e \in Edits : EditStep(e)  BY <1>0, <1>3, IndEdit
<1>4. CASE Crash \/ \E s \in Sids : Forget(s)  BY <1>0, <1>4, IndProcess
<1>5. CASE UNCHANGED vars
  BY <1>0, <1>5 DEF vars, IInv, Issued, InFlight, EphemeralOk, PriorOfSameConversation, Durable
<1>6. QED  BY <1>1, <1>2, <1>3, <1>4, <1>5 DEF Next

LEMMA Invariance == Spec => []IInv
BY IndInit, IndNext, PTL DEF Spec

\* No orphan rows and no row in another user's session, whatever deletes,
\* failures and crashes race with the writes of a turn.
THEOREM Ownership == Spec => []MessagesHaveOwner
<1>1. IInv => MessagesHaveOwner  BY DEF IInv, Tidy, RowOk, MessagesHaveOwner
<1>2. QED  BY <1>1, Invariance, PTL

\* On the connection and on disk, a stored answer always has its question.
THEOREM QuestionsKept == Spec => []QuestionBeforeAnswer
<1>1. IInv => QuestionBeforeAnswer
  <2> SUFFICES ASSUME IInv, NEW rows \in {msgs, disk.msgs}, NEW a \in rows, a.role = "assistant"
               PROVE  \E q \in rows : q.role = "user" /\ q.turn = a.turn /\ q.sid = a.sid /\ q.at < a.at
    BY DEF QuestionBeforeAnswer
  <2>1. CASE rows = msgs  BY <2>1 DEF IInv, Tidy, RowOk
  <2>2. CASE rows = disk.msgs  BY <2>2 DEF IInv, Tidy, RowOk
  <2>3. QED  BY <2>1, <2>2
<1>2. QED  BY <1>1, Invariance, PTL

\* Follow-ups never resolve against another session's, another user's, or an
\* unsuccessful turn.
THEOREM PriorIsolation == Spec => []PriorOfSameConversation
<1>1. IInv => PriorOfSameConversation  BY DEF IInv
<1>2. QED  BY <1>1, Invariance, PTL

=============================================================================
