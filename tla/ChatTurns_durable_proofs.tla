----------------------- MODULE ChatTurns_durable_proofs -----------------------
(***************************************************************************)
(* Machine-checked proofs about the history ChatTurns keeps of a           *)
(* conversation: which turn a follow-up resolves against, who may write a  *)
(* title, and that a saved turn survives every failure and crash.          *)
(***************************************************************************)
EXTENDS ChatTurns_proofs, WellFoundedInduction

(***************************************************************************)
(* Two action properties that follow from IInv.                            *)
(***************************************************************************)

\* A step that leaves the messages of a session alone leaves its state alone.
LEMMA SameResolved ==
    ASSUME NEW s, Resolved(s)' = Resolved(s)
    PROVE  LastResolved(s)' = LastResolved(s)
BY DEF LastResolved, CallOf

\* The insert of an answer is newer than every row, so when it moves the state
\* it moves it to its own turn.
LEMMA AnswerMovesPrior ==
    ASSUME IInv, NEW t \in Turns, InsertAssistant(t), NEW s \in Sids,
           LastResolved(s)' # LastResolved(s)
    PROVE  /\ LastResolved(s)' # None
           /\ LET x == turn[LastResolved(s)'.turn]
              IN  x.pc = "pAsst" /\ x.resp = "ok" /\ x.sid = s
<1> DEFINE row == Row(t, "assistant", StoredCall(t))
           newest == {m \in Resolved(s)' : \A n \in Resolved(s)' : n.at =< m.at}
<1>1. turn[t].pc = "pAsst" /\ InFlight(t) /\ now \in Nat /\ msgs \subseteq MsgRows
  BY DEF InsertAssistant, Insert, IInv, TypeInv, TypeOK
<1>2. msgs' = msgs \cup {row}
  BY SameResolved DEF InsertAssistant, Insert, Resolved
<1>3. row.sid = turn[t].sid /\ row.role = "assistant" /\ row.call = StoredCall(t) /\ row.at = now
  BY DEF Row
<1>4. row.sid = s /\ row.call # None
  <2>1. CASE ~(row.sid = s /\ row.call # None)
    <3>1. Resolved(s)' = Resolved(s)  BY <1>2, <2>1 DEF Resolved
    <3>2. QED  BY <3>1, SameResolved
  <2>2. QED  BY <2>1
<1>5. Resolved(s)' = Resolved(s) \cup {row}  BY <1>2, <1>3, <1>4 DEF Resolved
<1>6. \A m \in Resolved(s) : m.at \in Nat /\ m.at < now
  BY <1>1 DEF Resolved, IInv, Tidy, RowOk, MsgRows
<1>7. newest = {row}  BY <1>1, <1>3, <1>5, <1>6
<1>8. LastResolved(s)' = row.call  BY <1>7 DEF LastResolved, CallOf
<1>9. turn[t].resp = "ok" /\ row.call = turn[t].call /\ row.call.turn = t
  BY <1>1, <1>3, <1>4 DEF StoredCall, InFlight
<1>10. QED  BY <1>1, <1>3, <1>4, <1>8, <1>9

\* Messages are inserted by turns, deleted with their session, or rolled back.
LEMMA MessageSteps ==
    ASSUME IInv, [Next]_vars, NEW s \in Sids
    PROVE  \/ Resolved(s)' = Resolved(s)
           \/ sess'[s] = None
           \/ crashes' # crashes
           \/ \E t \in Turns : InsertAssistant(t)
<1>1. CASE msgs' = msgs  BY <1>1 DEF Resolved
<1>2. CASE \E t \in Turns : InsertUser(t)
  BY <1>2 DEF InsertUser, Insert, Row, Resolved
<1>3. CASE \E e \in Edits : EditWrite(e)
  <2>1. PICK e \in Edits : EditWrite(e)  BY <1>3
  <2>2. msgs' # msgs => edit[e].sid \in Sids /\ sess' = [sess EXCEPT ![edit[e].sid] = None]
                        /\ msgs' = {m \in msgs : m.sid # edit[e].sid}
    BY <2>1 DEF EditWrite, Cascade, IInv, TypeInv
  <2>3. sess \in [Sids -> SessRows \cup {None}]  BY DEF IInv, TypeInv, TypeOK
  <2>4. QED  BY <2>2, <2>3, <1>1 DEF Resolved
<1>4. CASE Crash
  <2>1. crashes \in Nat /\ crashes' = crashes + 1
    BY <1>4, ChatConstants DEF Crash, IInv, TypeInv, TypeOK
  <2>2. QED  BY <2>1
<1>5. CASE \/ Client \/ \E t \in Turns : Raise(t) \/ PersistFails(t)
           \/ \E e \in Edits : EditBelongs(e) \/ EditLoad(e) \/ EditCommit(e) \/ EditReread(e)
           \/ \E s2 \in Sids : Forget(s2)
  BY <1>1, <1>5 DEF Client, Send, Create, EditSend, Raise, PersistFails, EditBelongs, EditLoad,
                    EditCommit, EditReread, Forget, EditUnchanged, DbUnchanged
<1>6. CASE \E t \in Turns : \/ CheckOwner(t) \/ Translate(t) \/ ReadPrior(t) \/ Resolve(t)
                            \/ Dispatch(t) \/ Touch(t) \/ AutoTitle(t) \/ Commit(t)
  BY <1>1, <1>6 DEF CheckOwner, Translate, ReadPrior, Resolve, Dispatch, Touch, AutoTitle, Commit,
                    DbUnchanged
<1>7. CASE UNCHANGED vars  BY <1>1, <1>7 DEF vars
<1>8. QED  BY <1>2, <1>3, <1>4, <1>5, <1>6, <1>7 DEF Next, Progress, EditStep

\* What the next follow-up of a conversation inherits from changes only when a
\* turn of that conversation that succeeded stores its answer, whatever other
\* turns, chains, declines and route calls run meanwhile.
THEOREM PriorMovesOnSuccess == Spec => OnlySuccessMovesPrior
<1> DEFINE Moved == \A s \in Sids :
        LastResolved(s)' # LastResolved(s) =>
            \/ sess'[s] = None
            \/ crashes' # crashes
            \/ /\ LastResolved(s)' # None
               /\ LET x == turn[LastResolved(s)'.turn]
                  IN  x.pc = "pAsst" /\ x.resp = "ok" /\ x.sid = s
<1>1. IInv /\ [Next]_vars => Moved
  BY MessageSteps, SameResolved, AnswerMovesPrior
<1>2. IInv /\ [Next]_vars => [Moved]_vars  BY <1>1
<1>3. QED  BY <1>2, Invariance, PTL DEF Spec, OnlySuccessMovesPrior

-----------------------------------------------------------------------------

\* The one session row a step writes, and the title it gives it.
LEMMA TitleSteps ==
    ASSUME IInv, [Next]_vars, NEW s \in Sids, sess[s] # None, sess'[s] # None,
           sess[s].title # None, crashes' = crashes
    PROVE  sess'[s].title \in {sess[s].title} \cup Edits
<1>0. sess \in [Sids -> SessRows \cup {None}] /\ sess[s] \in SessRows /\ TypeInv /\ crashes \in Nat
  BY ChatConstants DEF IInv, TypeInv, TypeOK
<1>1. CASE sess'[s] = sess[s]  BY <1>1
<1>2. CASE \E t \in Turns : Touch(t)
  <2>1. PICK t \in Turns : Touch(t)  BY <1>2
  <2>2. sess' = sess \/ sess' = [sess EXCEPT ![turn[t].sid] = [sess[turn[t].sid] EXCEPT !.active = now]]
    BY <2>1 DEF Touch
  <2>3. [sess[s] EXCEPT !.active = now].title = sess[s].title  BY <1>0 DEF SessRows
  <2>4. QED  BY <1>0, <1>1, <2>2, <2>3
<1>3. CASE \E t \in Turns : AutoTitle(t)
  BY <1>0, <1>3 DEF AutoTitle, Untitled
<1>4. CASE \E u \in Users, c \in Sids, title \in {None, "given"} : Create(u, c, title)
  BY <1>0, <1>4 DEF Create, IInv, Issued
<1>5. CASE \E e \in Edits : EditWrite(e)
  <2>1. PICK e \in Edits : EditWrite(e)  BY <1>5
  <2>2. \/ sess' = sess \/ sess' = [sess EXCEPT ![edit[e].sid] = None]
        \/ sess' = [sess EXCEPT ![edit[e].sid] = [sess[edit[e].sid] EXCEPT !.title = e]]
    BY <2>1 DEF EditWrite
  <2>3. [sess[s] EXCEPT !.title = e].title = e  BY <1>0 DEF SessRows
  <2>4. QED  BY <1>0, <1>1, <2>2, <2>3
<1>6. CASE Crash  BY <1>0, <1>6 DEF Crash
<1>7. CASE \/ \E t \in Turns, u \in Users \cup {None}, c \in Sids \cup {None} : Send(t, u, c)
           \/ \E e \in Edits, k \in {"rename", "delete"}, u \in Users, c \in Sids : EditSend(e, k, u, c)
           \/ \E t \in Turns : Raise(t) \/ PersistFails(t) \/ InsertUser(t) \/ InsertAssistant(t)
           \/ \E e \in Edits : EditBelongs(e) \/ EditLoad(e) \/ EditCommit(e) \/ EditReread(e)
           \/ \E c \in Sids : Forget(c)
  BY <1>1, <1>7 DEF Send, EditSend, Raise, PersistFails, InsertUser, InsertAssistant, Insert,
                    EditBelongs, EditLoad, EditCommit, EditReread, Forget, EditUnchanged, DbUnchanged
<1>8. CASE \E t \in Turns : \/ CheckOwner(t) \/ Translate(t) \/ ReadPrior(t) \/ Resolve(t)
                            \/ Dispatch(t) \/ Commit(t)
  BY <1>1, <1>8 DEF CheckOwner, Translate, ReadPrior, Resolve, Dispatch, Commit, DbUnchanged
<1>9. CASE UNCHANGED vars  BY <1>1, <1>9 DEF vars
<1>10. QED
  BY <1>2, <1>3, <1>4, <1>5, <1>6, <1>7, <1>8, <1>9 DEF Next, Client, Progress, EditStep

\* However late the automatic title of a turn is written, it never replaces a
\* title the user gave at creation or by a rename.
THEOREM TitlesKept == Spec => TitleOnlyRenamed
<1> DEFINE Kept == \A s \in Sids :
        sess[s] # None /\ sess'[s] # None /\ sess[s].title # None /\ crashes' = crashes
        => sess'[s].title \in {sess[s].title} \cup Edits
<1>1. IInv /\ [Next]_vars => [Kept]_vars  BY TitleSteps
<1>2. QED  BY <1>1, Invariance, PTL DEF Spec, TitleOnlyRenamed

(***************************************************************************)
(* What is kept of a saved turn.  SavedIsDurable speaks of the disk; the   *)
(* induction needs the same of the connection, which the next commit       *)
(* copies, from the insert of the answer on, and that no session exists    *)
(* only on the connection.  FollowUpSeesAnswer needs, beyond that, what a  *)
(* stored answer says of its turn and what a question has seen.            *)
(***************************************************************************)

\* the commit of t's answer has returned
Past(t) == turn[t].saved \/ turn[t].pc \in {"pTouch", "cTouch", "pTitle", "cTitle"}

\* while t's session is in ss, both rows of t are in ms
Both(ss, ms, tn, t) ==
    ss[tn[t].sid] # None =>
        \A role \in {"user", "assistant"} :
            \E m \in ms : m.role = role /\ m.turn = t /\ m.sid = tn[t].sid

SavedOk(t) ==
    /\ turn[t].saved => turn[t].pc = "done"
    /\ Past(t) \/ turn[t].pc = "cAsst" =>
          Durable(t) /\ turn[t].sid \in used /\ Both(sess, msgs, turn, t)
    /\ Past(t) => Both(disk.sess, disk.msgs, turn, t)

\* Only a delete may be uncommitted when a request looks at the sessions.
Backed == \A s \in Sids : sess[s] # None => disk.sess[s] # None

\* A row is of a turn whose response is known; a successful one stores its call.
AnswerOk(m) ==
    /\ turn[m.turn].pc \notin Thinking \cup {"idle"}
    /\ m.role = "assistant" /\ turn[m.turn].resp = "ok" => m.call # None

\* What a question has seen are saved turns of its own conversation.
AskedOk(t) ==
    /\ turn[t].pc = "dispatch" \/ turn[t].resp = "ok" => turn[t].call # None
    /\ Durable(t) => \A x \in turn[t].seen : turn[x].saved /\ turn[x].sid = turn[t].sid

HInv ==
    /\ IInv
    /\ Backed
    /\ \A t \in Turns : SavedOk(t) /\ AskedOk(t)
    /\ \A m \in msgs \cup disk.msgs : AnswerOk(m)

-----------------------------------------------------------------------------
(* What one step may do to the tables, and to one turn. *)

TablesKept ==
    /\ used \subseteq used'
    /\ \A s \in used : sess'[s] # None => sess[s] # None
    /\ \A q \in msgs : q \in msgs' \/ sess'[q.sid] = None
    /\ \/ disk' = [sess |-> sess', msgs |-> msgs']
       \/ disk' = disk /\ \A s \in Sids : sess'[s] # None => sess[s] # None

LEMMA TableSteps ==
    ASSUME IInv, [Next]_vars, ~Crash
    PROVE  TablesKept
<1>0. sess \in [Sids -> SessRows \cup {None}] /\ msgs \subseteq MsgRows /\ used \subseteq Sids /\ TypeInv
  BY DEF IInv, TypeInv, TypeOK
<1>1. CASE \E t \in Turns : InsertUser(t) \/ InsertAssistant(t)
  BY <1>1 DEF InsertUser, InsertAssistant, Insert, TablesKept
<1>2. CASE \E t \in Turns : Touch(t) \/ AutoTitle(t)
  BY <1>0, <1>2 DEF Touch, AutoTitle, Owned, TablesKept
<1>3. CASE \E t \in Turns : Commit(t)  BY <1>3 DEF Commit, CommitAll, TablesKept
<1>4. CASE \E u \in Users, c \in Sids, title \in {None, "given"} : Create(u, c, title)
  BY <1>0, <1>4 DEF Create, CommitAll, TablesKept
<1>5. CASE \E e \in Edits : EditWrite(e)
  <2>1. PICK e \in Edits : EditWrite(e)  BY <1>5
  <2>2. edit[e].sid \in Sids  BY <1>0, <2>1 DEF EditWrite, TypeInv
  <2>3. CASE Owned(edit[e].sid, edit[e].user) /\ edit[e].kind = "delete"
    <3>1. /\ sess' = [sess EXCEPT ![edit[e].sid] = None] /\ msgs' = {m \in msgs : m.sid # edit[e].sid}
          /\ UNCHANGED <<used, disk>>
      BY <2>1, <2>3 DEF EditWrite, Cascade
    <3>2. QED  BY <1>0, <2>2, <3>1 DEF TablesKept
  <2>4. CASE ~(Owned(edit[e].sid, edit[e].user) /\ edit[e].kind = "delete")
    <3>1. msgs' = msgs /\ UNCHANGED <<used, disk>>  BY <2>1, <2>4 DEF EditWrite
    <3>2. \A s \in Sids : sess'[s] # None => sess[s] # None
      BY <1>0, <2>1, <2>2, <2>4 DEF EditWrite, Owned
    <3>3. QED  BY <1>0, <3>1, <3>2 DEF TablesKept
  <2>5. QED  BY <2>3, <2>4
<1>6. CASE \E e \in Edits : EditCommit(e)  BY <1>6 DEF EditCommit, CommitAll, TablesKept
<1>7. CASE UNCHANGED <<used, sess, msgs, disk>>  BY <1>7 DEF TablesKept
<1>8. CASE \/ \E t \in Turns, u \in Users \cup {None}, c \in Sids \cup {None} : Send(t, u, c)
           \/ \E e \in Edits, k \in {"rename", "delete"}, u \in Users, c \in Sids : EditSend(e, k, u, c)
           \/ \E t \in Turns : Raise(t) \/ PersistFails(t)
           \/ \E t \in Turns : \/ CheckOwner(t) \/ Translate(t) \/ ReadPrior(t) \/ Resolve(t)
                               \/ Dispatch(t)
           \/ \E e \in Edits : EditBelongs(e) \/ EditLoad(e) \/ EditReread(e)
           \/ \E c \in Sids : Forget(c)
  <2>1. UNCHANGED <<used, sess, msgs, disk>>
    BY <1>8 DEF Send, EditSend, Raise, PersistFails, CheckOwner, Translate, ReadPrior, Resolve, Dispatch,
                EditBelongs, EditLoad, EditReread, Forget, EditUnchanged, DbUnchanged
  <2>2. QED  BY <1>7, <2>1
<1>9. CASE UNCHANGED vars  BY <1>7, <1>9 DEF vars
<1>10. QED
  BY <1>1, <1>2, <1>3, <1>4, <1>5, <1>6, <1>8, <1>9 DEF Next, Client, Progress, EditStep

\* t is sent
Sends(t) ==
    /\ turn[t].pc = "idle" /\ turn'[t].pc \in {"owner", "translate"}
    /\ turn'[t].saved = turn[t].saved /\ turn'[t].resp = turn[t].resp /\ turn'[t].call = turn[t].call
    /\ turn'[t].user # None => turn'[t].seen = Answered(turn'[t].sid)

SameAsked(t) ==
    /\ turn'[t].user = turn[t].user /\ turn'[t].sid = turn[t].sid
    /\ turn'[t].seen = turn[t].seen

\* t moves on before its response is known, or as it becomes known
Thinks(t) ==
    /\ turn[t].pc \in Thinking /\ turn'[t].pc \in Thinking \cup {"pUser", "done"}
    /\ SameAsked(t) /\ turn'[t].saved = turn[t].saved
    /\ turn'[t].pc = "dispatch" => turn'[t].call # None
    /\ turn'[t].resp = "ok" => turn[t].pc = "dispatch" /\ turn'[t].call = turn[t].call

\* t persists, or gives up persisting
Writes(t) ==
    /\ turn[t].pc \in Writing \cup Committing /\ turn'[t].pc \in Writing \cup Committing \cup {"done"}
    /\ SameAsked(t) /\ turn'[t].resp = turn[t].resp /\ turn'[t].call = turn[t].call
    /\ turn'[t].saved => turn[t].saved \/ turn[t].pc = "cTitle"
    /\ turn'[t].saved => turn'[t].pc = "done"
    /\ turn'[t].pc = "cAsst" => InsertAssistant(t) /\ ForeignKey(turn[t].sid)
    /\ turn'[t].pc \in {"pTouch", "cTouch", "pTitle", "cTitle"} =>
          Past(t) \/ (turn[t].pc = "cAsst" /\ Commit(t))

Others(t) == \A x \in Turns : x # t => turn'[x] = turn[x]

LEMMA ThinkSteps ==
    ASSUME IInv, \A x \in Turns : AskedOk(x), NEW t \in Turns,
           \/ \E u \in Users \cup {None}, s \in Sids \cup {None} : Send(t, u, s)
           \/ CheckOwner(t) \/ Translate(t) \/ ReadPrior(t) \/ Resolve(t) \/ Dispatch(t) \/ Raise(t)
    PROVE  Others(t) /\ (Sends(t) \/ Thinks(t))
<1> USE DEF Go, Respond, SameAsked
<1>0. /\ turn[t] \in TurnRecords /\ turn \in [Turns -> TurnRecords] /\ TypeInv
      /\ turn[t].resp = "ok" => turn[t].pc \notin Thinking \cup {"idle"}
  BY DEF IInv, TypeInv, TypeOK, InFlight
<1>1. Others(t)
  BY <1>0 DEF Others, Send, CheckOwner, Translate, ReadPrior, Resolve, Dispatch, Raise
<1>2. CASE \E u \in Users \cup {None}, s \in Sids \cup {None} : Send(t, u, s)
  <2>1. PICK u \in Users \cup {None}, s \in Sids \cup {None} : Send(t, u, s)  BY <1>2
  <2> DEFINE seen == IF u # None THEN Answered(s) ELSE {}
             pc == IF u # None /\ s # None THEN "owner" ELSE "translate"
  <2>2. turn'[t] = [turn[t] EXCEPT !.user = u, !.sid = s, !.seen = seen, !.pc = pc]
    BY <1>0, <2>1 DEF Send
  <2>3. /\ turn'[t].user = u /\ turn'[t].sid = s /\ turn'[t].seen = seen /\ turn'[t].pc = pc
        /\ turn'[t].saved = turn[t].saved /\ turn'[t].resp = turn[t].resp
        /\ turn'[t].call = turn[t].call
    BY <1>0, <2>2 DEF TurnRecords
  <2>4. QED  BY <1>1, <2>1, <2>2, <2>3 DEF Send, Sends
<1>3. CASE CheckOwner(t)  BY <1>0, <1>1, <1>3 DEF CheckOwner, Thinks, Thinking, TurnRecords
<1>4. CASE Translate(t)  BY <1>0, <1>1, <1>4 DEF Translate, Thinks, Thinking, TurnRecords
<1>5. CASE ReadPrior(t)  BY <1>0, <1>1, <1>5 DEF ReadPrior, Thinks, Thinking, TurnRecords
<1>6. CASE Resolve(t)
  <2>1. CASE \E r \in {"clarify", "error"} : Respond(t, r)
    <3>1. PICK r \in {"clarify", "error"}, pc \in {"pUser", "done"} :
            turn'[t] = [turn[t] EXCEPT !.resp = r, !.pc = pc]
      BY <1>0, <2>1
    <3>2. QED  BY <1>0, <1>1, <1>6, <3>1 DEF Resolve, Thinks, Thinking, TurnRecords
  <2>2. CASE \E b \in Turns \cup {None} :
          turn' = [turn EXCEPT ![t].call = [turn |-> t, base |-> b], ![t].pc = "dispatch"]
    <3>1. PICK b \in Turns \cup {None} :
            turn' = [turn EXCEPT ![t].call = [turn |-> t, base |-> b], ![t].pc = "dispatch"]
      BY <2>2
    <3>2. [turn |-> t, base |-> b] # None  BY ChatConstants DEF Calls
    <3>3. QED  BY <1>0, <1>1, <1>6, <3>1, <3>2 DEF Resolve, Thinks, Thinking, TurnRecords
  <2>3. turn[t].prior # None => turn[t].prior.turn \in Turns  BY <1>0 DEF Calls, TurnRecords
  <2>4. QED  BY <1>6, <2>1, <2>2, <2>3 DEF Resolve
<1>7. CASE Dispatch(t)  BY <1>0, <1>1, <1>7 DEF Dispatch, Thinks, Thinking, TurnRecords
<1>8. CASE Raise(t)  BY <1>0, <1>1, <1>8 DEF Raise, Thinks, Thinking, TurnRecords
<1>9. QED  BY <1>2, <1>3, <1>4, <1>5, <1>6, <1>7, <1>8

LEMMA WriteSteps ==
    ASSUME HInv, NEW t \in Turns,
           \/ InsertUser(t) \/ InsertAssistant(t) \/ Touch(t) \/ AutoTitle(t) \/ Commit(t)
           \/ PersistFails(t)
    PROVE  Others(t) /\ Writes(t)
<1> USE DEF SameAsked
<1>0. turn[t] \in TurnRecords /\ turn \in [Turns -> TurnRecords] /\ (turn[t].saved => turn[t].pc = "done")
  BY DEF HInv, SavedOk, IInv, TypeInv, TypeOK
<1>1. Others(t)
  BY <1>0 DEF Others, InsertUser, InsertAssistant, Insert, Touch, AutoTitle, Commit, PersistFails, Go
<1>2. CASE InsertUser(t) \/ InsertAssistant(t)
  BY <1>0, <1>1, <1>2 DEF InsertUser, InsertAssistant, Insert, Go, Writes, Writing, Committing, TurnRecords
<1>3. CASE Touch(t) \/ AutoTitle(t) \/ PersistFails(t)
  BY <1>0, <1>1, <1>3 DEF Touch, AutoTitle, PersistFails, Go, Writes, Writing, Committing, Past, TurnRecords
<1>4. CASE Commit(t)
  <2>1. turn'[t] = [turn[t] EXCEPT !.pc = AfterCommit(turn[t].pc), !.saved = turn[t].pc = "cTitle"]
        /\ turn[t].pc \in Committing
    BY <1>0, <1>4 DEF Commit
  <2>2. /\ turn'[t].pc = AfterCommit(turn[t].pc) /\ turn'[t].saved = (turn[t].pc = "cTitle")
        /\ SameAsked(t) /\ turn'[t].resp = turn[t].resp /\ turn'[t].call = turn[t].call
    BY <1>0, <2>1 DEF TurnRecords
  <2>3. QED  BY <1>1, <1>4, <2>1, <2>2 DEF AfterCommit, Writes, Writing, Committing, Past
<1>5. QED  BY <1>2, <1>3, <1>4

\* Whatever steps, each turn stays as it is or makes one of these moves.
LEMMA TurnKinds ==
    ASSUME HInv, [Next]_vars, ~Crash, NEW x \in Turns
    PROVE  turn'[x] = turn[x] \/ Sends(x) \/ Thinks(x) \/ Writes(x)
<1>1. CASE \E t \in Turns, u \in Users \cup {None}, c \in Sids \cup {None} : Send(t, u, c)
  BY <1>1, ThinkSteps DEF HInv, Others
<1>2. CASE \E t \in Turns : \/ CheckOwner(t) \/ Translate(t) \/ ReadPrior(t) \/ Resolve(t)
                            \/ Dispatch(t) \/ Raise(t)
  BY <1>2, ThinkSteps DEF HInv, Others
<1>3. CASE \E t \in Turns : \/ InsertUser(t) \/ InsertAssistant(t) \/ Touch(t) \/ AutoTitle(t)
                            \/ Commit(t) \/ PersistFails(t)
  BY <1>3, WriteSteps DEF Others
<1>4. CASE \/ \E u \in Users, c \in Sids, title \in {None, "given"} : Create(u, c, title)
           \/ \E e \in Edits, k \in {"rename", "delete"}, u \in Users, c \in Sids : EditSend(e, k, u, c)
           \/ \E e \in Edits : EditStep(e)
           \/ \E c \in Sids : Forget(c)
  BY <1>4 DEF Create, EditSend, EditStep, EditBelongs, EditLoad, EditWrite, EditCommit, EditReread,
              Forget, EditUnchanged
<1>5. CASE UNCHANGED vars  BY <1>5 DEF vars
<1>6. QED  BY <1>1, <1>2, <1>3, <1>4, <1>5 DEF Next, Client, Progress

-----------------------------------------------------------------------------
(* The induction, conjunct by conjunct. *)

\* Rows of a session that stays are kept, on the connection and on disk.
LEMMA BothKept ==
    ASSUME IInv, TablesKept, NEW x \in Turns, turn'[x].sid = turn[x].sid, turn[x].sid \in used
    PROVE  /\ Both(sess, msgs, turn, x) => Both(sess', msgs', turn', x)
           /\ Both(sess, msgs, turn, x) /\ Both(disk.sess, disk.msgs, turn, x)
                => Both(disk'.sess, disk'.msgs, turn', x)
<1>1. Both(sess, msgs, turn, x) => Both(sess', msgs', turn', x)
  BY DEF TablesKept, Both
<1>2. disk' = [sess |-> sess', msgs |-> msgs'] => disk'.sess = sess' /\ disk'.msgs = msgs'
  OBVIOUS
<1>3. disk' = disk => (Both(disk.sess, disk.msgs, turn, x) => Both(disk'.sess, disk'.msgs, turn', x))
  BY DEF Both
<1>4. QED  BY <1>1, <1>2, <1>3 DEF TablesKept

LEMMA SavedStep ==
    ASSUME HInv, [Next]_vars, ~Crash, NEW x \in Turns
    PROVE  SavedOk(x)'
<1>0. /\ SavedOk(x) /\ IInv /\ InFlight(x) /\ TypeInv
      /\ TablesKept
  BY TableSteps DEF HInv, IInv
<1>1. CASE turn'[x] = turn[x]
  <2>1. (Past(x)' <=> Past(x)) /\ (Durable(x)' <=> Durable(x))  BY <1>1 DEF Past, Durable
  <2>2. QED  BY <1>0, <1>1, <2>1, BothKept DEF SavedOk, TablesKept
<1>2. CASE Sends(x) \/ Thinks(x)
  <2>1. turn'[x].saved = FALSE /\ turn'[x].pc \in Thinking \cup {"pUser", "done"}
    <3>1. turn[x].saved = FALSE
      BY <1>0, <1>2 DEF Sends, Thinks, SavedOk, Thinking, TypeInv, TypeOK, TurnRecords
    <3>2. QED  BY <1>2, <3>1 DEF Sends, Thinks, Thinking
  <2>2. QED  BY <2>1 DEF SavedOk, Past, Thinking
<1>3. CASE Writes(x)
  <2>1. /\ Durable(x) /\ Durable(x)' /\ turn'[x].sid = turn[x].sid
        /\ turn[x].sid \in used /\ turn[x].sid \in used'
    BY <1>0, <1>3 DEF Writes, SameAsked, TypeInv, Durable, InFlight, TablesKept
  <2>2. turn'[x].saved => turn'[x].pc = "done"  BY <1>3 DEF Writes
  <2>3. CASE turn'[x].pc = "cAsst"
    <3>1. InsertAssistant(x) /\ ForeignKey(turn[x].sid)  BY <1>3, <2>3 DEF Writes
    <3>2. /\ msgs' = msgs \cup {Row(x, "assistant", StoredCall(x))} /\ sess' = sess
          /\ turn[x].pc = "pAsst" /\ sess[turn[x].sid] # None
      BY <3>1 DEF InsertAssistant, Insert, ForeignKey
    <3>3. PICK q \in msgs : q.role = "user" /\ q.turn = x /\ q.sid = turn[x].sid
      BY <1>0, <3>2 DEF InFlight
    <3>4. ASSUME NEW role \in {"user", "assistant"}
          PROVE  \E m \in msgs' : m.role = role /\ m.turn = x /\ m.sid = turn'[x].sid
      <4>1. CASE role = "user"  BY <2>1, <3>2, <3>3, <4>1
      <4>2. CASE role = "assistant"
        <5>1. Row(x, "assistant", StoredCall(x)) \in msgs'  BY <3>2
        <5>2. QED  BY <2>1, <4>2, <5>1 DEF Row
      <4>3. QED  BY <3>4, <4>1, <4>2
    <3>5. ~Past(x)'  BY <2>2, <2>3 DEF Past
    <3>6. QED  BY <2>1, <2>2, <3>4, <3>5 DEF SavedOk, Both
  <2>4. CASE turn'[x].pc # "cAsst" /\ Past(x)
    BY <1>0, <2>1, <2>2, <2>4, BothKept DEF SavedOk
  <2>5. CASE turn'[x].pc # "cAsst" /\ ~Past(x) /\ Past(x)'
    <3>1. turn[x].pc = "cAsst" /\ Commit(x)  BY <1>3, <2>5 DEF Writes, Past
    <3>2. disk' = [sess |-> sess', msgs |-> msgs'] /\ Both(sess', msgs', turn', x)
      BY <1>0, <2>1, <3>1, BothKept DEF Commit, CommitAll, SavedOk
    <3>3. QED  BY <2>1, <2>2, <3>2 DEF SavedOk
  <2>6. CASE turn'[x].pc # "cAsst" /\ ~Past(x)'  BY <2>2, <2>6 DEF SavedOk
  <2>7. QED  BY <2>3, <2>4, <2>5, <2>6
<1>4. QED  BY <1>1, <1>2, <1>3, TurnKinds

LEMMA AskedStep ==
    ASSUME HInv, [Next]_vars, ~Crash, NEW t \in Turns
    PROVE  AskedOk(t)'
<1>0. /\ AskedOk(t) /\ IInv /\ InFlight(t) /\ turn[t] \in TurnRecords
      /\ \A x \in Turns : SavedOk(x)
  BY DEF HInv, IInv, TypeInv, TypeOK
\* a saved turn rests
<1>1. ASSUME NEW x \in Turns, turn[x].saved PROVE turn'[x] = turn[x]
  <2>1. turn[x].pc = "done"  BY <1>0, <1>1 DEF SavedOk
  <2>2. QED  BY <2>1, TurnKinds DEF Sends, Thinks, Writes, Thinking, Writing, Committing
<1>2. turn[t].seen \subseteq Turns  BY <1>0 DEF TurnRecords
<1>3. CASE turn'[t] = turn[t]  BY <1>0, <1>1, <1>2, <1>3 DEF AskedOk, Durable
<1>4. CASE Sends(t)
  <2>1. turn[t].resp # "ok" /\ turn'[t].pc # "dispatch"  BY <1>0, <1>4 DEF Sends, InFlight
  <2>2. turn'[t].user # None => turn'[t].seen = {x \in Turns : turn[x].saved /\ turn[x].sid = turn'[t].sid}
    BY <1>4 DEF Sends, Answered
  <2>3. QED  BY <1>1, <1>4, <2>1, <2>2 DEF Sends, AskedOk, Durable
<1>5. CASE Thinks(t)  BY <1>0, <1>1, <1>2, <1>5 DEF Thinks, SameAsked, AskedOk, Durable
<1>6. CASE Writes(t)
  <2>1. turn'[t].pc # "dispatch"  BY <1>6 DEF Writes, Writing, Committing
  <2>2. QED  BY <1>0, <1>1, <1>2, <1>6, <2>1 DEF Writes, SameAsked, AskedOk, Durable
<1>7. QED  BY <1>3, <1>4, <1>5, <1>6, TurnKinds

\* A step adds at most the row of the turn that takes it.
LEMMA RowSteps ==
    ASSUME IInv, [Next]_vars, ~Crash, NEW m \in msgs' \cup disk'.msgs
    PROVE  \/ m \in msgs \cup disk.msgs
           \/ \E t \in Turns : \/ InsertUser(t) /\ ForeignKey(turn[t].sid) /\ m = Row(t, "user", None)
                               \/ /\ InsertAssistant(t) /\ ForeignKey(turn[t].sid)
                                  /\ m = Row(t, "assistant", StoredCall(t))
<1>1. CASE m \in disk'.msgs /\ m \notin msgs'
  <2>1. disk' = disk  BY <1>1, TableSteps DEF TablesKept
  <2>2. QED  BY <1>1, <2>1
<1>2. CASE m \in msgs'
  <2>1. CASE msgs' \subseteq msgs  BY <1>2, <2>1
  <2>2. CASE \E t \in Turns : InsertUser(t) \/ InsertAssistant(t)
    BY <1>2, <2>2 DEF InsertUser, InsertAssistant, Insert
  <2>3. CASE \E e \in Edits : EditWrite(e)  BY <2>1, <2>3 DEF EditWrite, Cascade
  <2>4. CASE \/ Client \/ \E t \in Turns : Raise(t) \/ PersistFails(t)
             \/ \E e \in Edits : EditBelongs(e) \/ EditLoad(e) \/ EditCommit(e) \/ EditReread(e)
             \/ \E c \in Sids : Forget(c)
    BY <2>1, <2>4 DEF Client, Send, Create, EditSend, Raise, PersistFails, EditBelongs, EditLoad,
                      EditCommit, EditReread, Forget, EditUnchanged, DbUnchanged
  <2>5. CASE \E t \in Turns : \/ CheckOwner(t) \/ Translate(t) \/ ReadPrior(t) \/ Resolve(t)
                              \/ Dispatch(t) \/ Touch(t) \/ AutoTitle(t) \/ Commit(t)
    BY <2>1, <2>5 DEF CheckOwner, Translate, ReadPrior, Resolve, Dispatch, Touch, AutoTitle, Commit,
                      DbUnchanged
  <2>6. CASE UNCHANGED vars  BY <2>1, <2>6 DEF vars
  <2>7. QED  BY <2>2, <2>3, <2>4, <2>5, <2>6 DEF Next, Progress, EditStep
<1>3. QED  BY <1>1, <1>2

LEMMA AnswerStep ==
    ASSUME HInv, [Next]_vars, ~Crash, NEW m \in msgs' \cup disk'.msgs
    PROVE  AnswerOk(m)'
<1>0. IInv  BY DEF HInv
<1>1. CASE m \in msgs \cup disk.msgs
  <2>1. AnswerOk(m) /\ m.turn \in Turns
    BY <1>1 DEF HInv, IInv, TypeInv, TypeOK, MsgRows
  <2>2. turn'[m.turn] = turn[m.turn] \/ Writes(m.turn)
    BY <2>1, TurnKinds DEF AnswerOk, Sends, Thinks
  <2>3. QED  BY <2>1, <2>2 DEF AnswerOk, Writes, Writing, Committing, Thinking
<1>2. CASE m \notin msgs \cup disk.msgs
  <2>1. PICK t \in Turns :
          \/ InsertUser(t) /\ ForeignKey(turn[t].sid) /\ m = Row(t, "user", None)
          \/ /\ InsertAssistant(t) /\ ForeignKey(turn[t].sid)
             /\ m = Row(t, "assistant", StoredCall(t))
    BY <1>0, <1>2, RowSteps
  <2>2. Writes(t) /\ AskedOk(t)  BY <2>1, WriteSteps DEF HInv
  <2>3. m.turn = t /\ (m.role = "assistant" => m.call = StoredCall(t))  BY <2>1 DEF Row
  <2>4. QED
    BY <2>2, <2>3 DEF AnswerOk, AskedOk, StoredCall, Writes, Writing, Committing, Thinking
<1>3. QED  BY <1>1, <1>2

LEMMA HistoryCrash ==
    ASSUME HInv, IInv', Crash
    PROVE  HInv'
<1>0. IInv /\ turn \in [Turns -> TurnRecords] /\ disk.msgs \subseteq MsgRows
  BY DEF HInv, IInv, TypeInv, TypeOK
<1>1. \A x \in Turns :
        /\ turn'[x].user = turn[x].user /\ turn'[x].sid = turn[x].sid /\ turn'[x].seen = turn[x].seen
        /\ turn'[x].resp = turn[x].resp /\ turn'[x].call = turn[x].call
        /\ turn'[x].saved = turn[x].saved
        /\ turn[x].pc = "done" => turn'[x].pc = "done"
        /\ turn[x].pc # "idle" => turn'[x].pc # "idle"
        /\ turn'[x].pc \in {"idle", "done", "lost"}
  BY <1>0 DEF Crash, TurnRecords
<1>2. /\ sess' = disk.sess /\ msgs' = disk.msgs /\ UNCHANGED <<used, disk>>  BY DEF Crash
<1>3. ASSUME NEW x \in Turns PROVE SavedOk(x)' /\ AskedOk(x)'
  <2>1. SavedOk(x) /\ AskedOk(x) /\ turn[x].seen \subseteq Turns  BY <1>0 DEF HInv, TurnRecords
  <2>2. Past(x)' <=> turn[x].saved  BY <1>1 DEF Past
  <2>3. turn[x].saved => Durable(x)' /\ turn[x].sid \in used /\ Both(disk.sess, disk.msgs, turn', x)
    BY <1>1, <2>1 DEF SavedOk, Past, Durable, Both
  <2>4. SavedOk(x)'  BY <1>1, <1>2, <2>1, <2>2, <2>3 DEF SavedOk, Durable
  <2>5. AskedOk(x)'  BY <1>1, <2>1 DEF AskedOk, Durable
  <2>6. QED  BY <2>4, <2>5
<1>4. ASSUME NEW m \in msgs' \cup disk'.msgs PROVE AnswerOk(m)'
  <2>1. m \in disk.msgs /\ m.turn \in Turns /\ AnswerOk(m)  BY <1>0, <1>2 DEF HInv, MsgRows
  <2>2. QED  BY <1>1, <2>1 DEF AnswerOk, Thinking
<1>5. Backed'  BY <1>2 DEF Backed
<1>6. QED  BY <1>3, <1>4, <1>5 DEF HInv

LEMMA HistoryNext == HInv /\ [Next]_vars => HInv'
<1> SUFFICES ASSUME HInv, [Next]_vars PROVE HInv'  OBVIOUS
<1>0. IInv'  BY IndNext DEF HInv
<1>1. CASE Crash  BY <1>0, <1>1, HistoryCrash
<1>2. CASE ~Crash
  <2>1. Backed'
    <3>1. TablesKept  BY <1>2, TableSteps DEF HInv
    <3>2. disk' = [sess |-> sess', msgs |-> msgs'] => disk'.sess = sess'  OBVIOUS
    <3>3. QED  BY <3>1, <3>2 DEF HInv, Backed, TablesKept
  <2>2. QED  BY <1>0, <1>2, <2>1, SavedStep, AskedStep, AnswerStep DEF HInv
<1>3. QED  BY <1>1, <1>2

LEMMA HistoryInit == Init => HInv
<1> SUFFICES ASSUME Init PROVE HInv  OBVIOUS
<1>1. msgs = {} /\ disk.msgs = {} /\ sess = disk.sess  BY DEF Init
<1>2. ASSUME NEW t \in Turns PROVE SavedOk(t) /\ AskedOk(t)
  BY DEF Init, SavedOk, AskedOk, Past, Durable
<1>3. QED  BY <1>1, <1>2, IndInit DEF HInv, Backed

LEMMA HistoryKept == Spec => []HInv
BY HistoryInit, HistoryNext, PTL DEF Spec

\* Once the commit of a turn's answer returned, its question and its answer stay
\* on disk while the session exists, whatever later fails or crashes.
THEOREM SavedStaysDurable == Spec => []SavedIsDurable
<1>1. HInv => SavedIsDurable
  <2> SUFFICES ASSUME HInv, NEW t \in Turns, sess[turn[t].sid] # None, Past(t)
               PROVE  {"user", "assistant"} \subseteq {m.role : m \in {n \in disk.msgs : n.turn = t}}
    BY DEF SavedIsDurable, Past
  <2>1. Durable(t) /\ Both(disk.sess, disk.msgs, turn, t)  BY DEF HInv, SavedOk
  <2>2. turn[t].sid \in Sids  BY <2>1 DEF HInv, IInv, TypeInv, TypeOK, TurnRecords, Durable
  <2>3. disk.sess[turn[t].sid] # None  BY <2>2 DEF HInv, Backed
  <2>4. QED  BY <2>1, <2>3 DEF Both
<1>2. QED  BY <1>1, HistoryKept, PTL

-----------------------------------------------------------------------------

\* A non-empty set of naturals has a least element.
LEMMA LeastNatural ==
    ASSUME NEW T, T \subseteq Nat, T # {}
    PROVE  \E m \in T : \A n \in T : m =< n
<1>1. PICK m \in T : \A n \in T : ~ (<<n, m>> \in OpToRel(<, Nat))
  BY WFMin, NatLessThanWellFounded
<1>2. \A n \in T : n \in Nat /\ m \in Nat /\ ~ (n < m)  BY <1>1 DEF OpToRel
<1>3. QED  BY <1>2

\* Among rows written before n there is a newest one.
LEMMA NewestRow ==
    ASSUME NEW n \in Nat, NEW rows, rows # {}, \A m \in rows : m.at \in Nat /\ m.at < n
    PROVE  \E m \in rows : \A a \in rows : a.at =< m.at
<1> DEFINE gaps == {n - m.at : m \in rows}
<1>1. gaps # {} /\ gaps \subseteq Nat  OBVIOUS
<1>2. PICK d \in gaps : \A e \in gaps : d =< e  BY <1>1, LeastNatural
<1>3. PICK m \in rows : d = n - m.at  OBVIOUS
<1>4. \A a \in rows : a.at =< m.at  BY <1>2, <1>3
<1>5. QED  BY <1>4

\* What a follow-up finds is at least as new as every successful answer of its
\* conversation that was complete when it was sent.
LEMMA FollowUpFinds ==
    ASSUME HInv, NEW t \in Turns, turn[t].pc = "prior", turn'[t].pc = "resolve", ReadPrior(t),
           Durable(t), sess[turn[t].sid] # None, NEW x \in turn[t].seen, turn[x].resp = "ok"
    PROVE  \E m \in msgs : /\ m.call # None /\ m.call = turn'[t].prior
                          /\ \A a \in AnswerRow(x) : a.at =< m.at
<1> DEFINE s == turn[t].sid
           newest == {m \in Resolved(s) : \A n \in Resolved(s) : n.at =< m.at}
<1>0. /\ turn[t] \in TurnRecords /\ turn \in [Turns -> TurnRecords] /\ x \in Turns
      /\ now \in Nat /\ msgs \subseteq MsgRows /\ AskedOk(t) /\ SavedOk(x)
  BY DEF HInv, IInv, TypeInv, TypeOK, TurnRecords
<1>1. turn[x].saved /\ turn[x].sid = s  BY <1>0 DEF AskedOk
<1>2. AnswerRow(x) \subseteq Resolved(s)
  <2> SUFFICES ASSUME NEW a \in msgs, a.turn = x, a.role = "assistant"
               PROVE  a.sid = s /\ a.call # None
    BY DEF AnswerRow, Resolved
  <2>1. RowOk(a, sess, msgs, turn, now) /\ AnswerOk(a)  BY DEF HInv, IInv, Tidy
  <2>2. QED  BY <1>1, <2>1 DEF RowOk, AnswerOk
<1>3. AnswerRow(x) # {}
  <2>1. Both(sess, msgs, turn, x)  BY <1>0, <1>1 DEF SavedOk, Past
  <2>2. QED  BY <1>1, <2>1 DEF Both, AnswerRow
<1>4. \A m \in Resolved(s) : m.at \in Nat /\ m.at < now
  BY <1>0 DEF Resolved, HInv, IInv, Tidy, RowOk, MsgRows
<1>5. newest # {}  BY <1>0, <1>2, <1>3, <1>4, NewestRow
<1>6. PICK m \in newest : m.call = LastResolved(s)
  <2>1. (CHOOSE m \in newest : TRUE) \in newest  BY <1>5
  <2>2. QED  BY <1>5, <2>1 DEF LastResolved, CallOf
<1>7. turn'[t].prior = LastResolved(s)  BY <1>0 DEF ReadPrior
<1>8. m \in msgs /\ m.call # None  BY DEF Resolved
<1>9. QED  BY <1>2, <1>6, <1>7, <1>8

\* A question sent once a successful answer of its conversation was complete
\* inherits from that answer or from a later one: across other turns that run
\* at the same time, route calls, failures and restarts.
THEOREM FollowUpsSeeAnswers == Spec => FollowUpSeesAnswer
<1> DEFINE Sees == \A t \in Turns :
        turn[t].pc = "prior" /\ turn'[t].pc = "resolve" /\ Durable(t) /\ sess[turn[t].sid] # None
        => \A x \in turn[t].seen : turn[x].resp = "ok" =>
             \E m \in msgs : /\ m.call # None /\ m.call = turn'[t].prior
                            /\ \A a \in AnswerRow(x) : a.at =< m.at
<1>1. ASSUME HInv, [Next]_vars, NEW t \in Turns, turn[t].pc = "prior", turn'[t].pc = "resolve"
      PROVE  ReadPrior(t)
  <2>0. turn \in [Turns -> TurnRecords]  BY <1>1 DEF HInv, IInv, TypeInv, TypeOK
  <2>1. CASE \E x \in Turns, u \in Users \cup {None}, c \in Sids \cup {None} : Send(x, u, c)
    BY <1>1, <2>1, ThinkSteps DEF HInv, Others, Send, Sends, Thinks
  <2>2. CASE \E x \in Turns : ReadPrior(x)  BY <1>1, <2>0, <2>2 DEF ReadPrior
  <2>3. CASE \E x \in Turns : CheckOwner(x) \/ Translate(x) \/ Resolve(x) \/ Dispatch(x) \/ Raise(x)
    <3>1. PICK x \in Turns : CheckOwner(x) \/ Translate(x) \/ Resolve(x) \/ Dispatch(x) \/ Raise(x)
      BY <2>3
    <3>2. x # t => turn'[t] = turn[t]  BY <1>1, <3>1, ThinkSteps DEF HInv, Others
    <3>3. turn[t].pc = "prior" => ~(CheckOwner(t) \/ Translate(t) \/ Resolve(t) \/ Dispatch(t))
      BY DEF CheckOwner, Translate, Resolve, Dispatch
    <3>4. Raise(t) => turn'[t].pc = "done"  BY <2>0 DEF Raise, TurnRecords
    <3>5. QED  BY <1>1, <3>1, <3>2, <3>3, <3>4
  <2>4. CASE \E x \in Turns : \/ InsertUser(x) \/ InsertAssistant(x) \/ Touch(x) \/ AutoTitle(x)
                              \/ Commit(x) \/ PersistFails(x)
    BY <1>1, <2>4, WriteSteps DEF Others, Writes, Writing, Committing
  <2>5. CASE turn' = turn  BY <1>1, <2>5
  <2>6. CASE Crash  BY <1>1, <2>0, <2>6 DEF Crash, TurnRecords
  <2>7. CASE \/ \E u \in Users, c \in Sids, title \in {None, "given"} : Create(u, c, title)
             \/ \E e \in Edits, k \in {"rename", "delete"}, u \in Users, c \in Sids : EditSend(e, k, u, c)
             \/ \E e \in Edits : EditStep(e)
             \/ \E c \in Sids : Forget(c)
             \/ UNCHANGED vars
    BY <2>5, <2>7 DEF Create, EditSend, EditStep, EditBelongs, EditLoad, EditWrite, EditCommit,
                      EditReread, Forget, EditUnchanged, vars
  <2>8. QED  BY <1>1, <2>1, <2>2, <2>3, <2>4, <2>6, <2>7 DEF Next, Client, Progress
<1>2. HInv /\ [Next]_vars => [Sees]_vars  BY <1>1, FollowUpFinds
<1>3. QED  BY <1>2, HistoryKept, PTL DEF Spec, FollowUpSeesAnswer

=============================================================================
