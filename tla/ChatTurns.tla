------------------------------ MODULE ChatTurns ------------------------------
(***************************************************************************)
(* Durable chat turns: POST /api/query (main.query), the control flow of   *)
(* orchestrator.process_question and _persist_turn, the session and        *)
(* message repository of appdb, and the session routes.                    *)
(*                                                                         *)
(* The server is one asyncio process with ONE shared SQLite connection.    *)
(* Every `await` is a point where another request may run, so each request *)
(* is a record with a pc and one action per stretch between two awaits.    *)
(* `sess` and `msgs` are what the shared connection sees; `disk` is what   *)
(* was last committed.  A repository write is an execute and a commit in   *)
(* two awaits, and a commit makes EVERY pending write of the connection    *)
(* durable, whoever issued it.                                             *)
(*                                                                         *)
(* A question, its filters and its answer are abstracted to who asked (the *)
(* turn) and which earlier turn its resolved call inherited from (base).   *)
(***************************************************************************)
EXTENDS Naturals, FiniteSets

CONSTANTS
    Users,      \* authenticated users
    Sids,       \* session ids a client may hold (uuid4, never reused)
    Turns,      \* POST /api/query requests
    Edits,      \* PATCH and DELETE /api/sessions/{id} requests
    Planner,    \* settings.planner_enabled (and meta_tools_enabled)
    MaxCrashes, \* bound on process crashes (systemd restarts the process)
    None        \* Python's None: no user, no session, no prior, no title

VARIABLES
    now,     \* the UTC clock _now_iso reads, one tick per stamped write
    used,    \* session ids handed out so far
    sess,    \* table sessions as the shared connection sees it
    msgs,    \* table messages as the shared connection sees it
    disk,    \* both tables as last committed
    eph,     \* resolver's in-memory store of anonymous sessions
    turn,    \* one record per query request
    edit,    \* one record per session-route request
    crashes

vars == <<now, used, sess, msgs, disk, eph, turn, edit, crashes>>

Calls == [turn : Turns, base : Turns \cup {None}]
Titles == Turns \cup Edits \cup {None, "given"}
SessRows == [owner : Users, title : Titles, active : Nat]
MsgRows == [at : Nat, sid : Sids, role : {"user", "assistant"},
            turn : Turns, call : Calls \cup {None}]

\* None is no name, no row and no call; ids of different tables differ.
ASSUME ChatConstants ==
    /\ None \notin Users \cup Sids \cup Turns \cup Edits
    /\ None \notin Calls /\ None \notin SessRows
    /\ "given" \notin Turns \cup Edits \cup {None}
    /\ Turns \cap Edits = {}
    /\ Planner \in BOOLEAN
    /\ MaxCrashes \in Nat

Thinking == {"owner", "translate", "prior", "resolve", "dispatch"}
Writing == {"pUser", "pAsst", "pTouch", "pTitle"}
Committing == {"cUser", "cAsst", "cTouch", "cTitle"}
Responses == {"none", "rejected", "raised", "error", "clarify", "chain", "ok"}

TurnRecords ==
    [pc : {"idle", "done", "lost"} \cup Thinking \cup Writing \cup Committing,
     user : Users \cup {None}, sid : Sids \cup {None}, seen : SUBSET Turns,
     prior : Calls \cup {None}, call : Calls \cup {None},
     resp : Responses, saved : BOOLEAN]

Codes == {"none", "200", "404", "500"}

EditRecords ==
    [pc : {"idle", "belongs", "load", "write", "commit", "reread", "done", "lost"},
     kind : {"rename", "delete"}, user : Users \cup {None}, sid : Sids \cup {None},
     hit : BOOLEAN, code : Codes]

TypeOK ==
    /\ now \in Nat
    /\ used \subseteq Sids
    /\ sess \in [Sids -> SessRows \cup {None}]
    /\ msgs \subseteq MsgRows
    /\ disk \in [sess : [Sids -> SessRows \cup {None}], msgs : SUBSET MsgRows]
    /\ eph \in [Sids -> Calls \cup {None}]
    /\ turn \in [Turns -> TurnRecords]
    /\ edit \in [Edits -> EditRecords]
    /\ crashes \in 0..MaxCrashes

-----------------------------------------------------------------------------
(* Operators on the two tables. *)

\* process_question's `durable`
Durable(t) == turn[t].user # None /\ turn[t].sid # None

\* WHERE id = ? AND user_id = ?
Owned(s, u) == sess[s] # None /\ sess[s].owner = u

\* fault: the check only asks that the session exists
session_exists(s, u) == sess[s] # None /\ u # None

session_belongs_to_user(s, u) == Owned(s, u)

\* fault: PRAGMA foreign_keys left OFF
NoForeignKey(s) == s \in Sids

\* the foreign key of a messages row
ForeignKey(s) == sess[s] # None

\* fault: no ON DELETE CASCADE
NoCascade(s) == {m \in msgs : m.sid # s \/ m.role = "user"}

\* messages left once session s is deleted
Cascade(s) == {m \in msgs : m.sid # s}

\* fault: the UPDATE has no `title IS NULL`
AnyTitle(s) == sess[s] # None

Untitled(s) == sess[s].title = None

\* fault: conn.commit() forgotten
CommitNothing == disk' = disk

CommitAll == disk' = [sess |-> sess', msgs |-> msgs']

\* fault: no WHERE session_id = ?
AnyResolved(s) == {m \in msgs : s \in Sids /\ m.role = "assistant" /\ m.call # None}

\* rows get_last_resolved_call selects from
Resolved(s) == {m \in msgs : m.sid = s /\ m.role = "assistant" /\ m.call # None}

\* The call of the first row, if any
CallOf(rows) == IF rows = {} THEN None ELSE (CHOOSE m \in rows : TRUE).call

\* fault: ORDER BY created_at ASC
OldestResolved(s) == CallOf({m \in Resolved(s) : \A n \in Resolved(s) : m.at =< n.at})

\* get_last_resolved_call: ORDER BY created_at DESC LIMIT 1
LastResolved(s) == CallOf({m \in Resolved(s) : \A n \in Resolved(s) : n.at =< m.at})

Go(t, pc) == turn' = [turn EXCEPT ![t].pc = pc]

\* fault: the user's question is only stored with a successful answer
RespondSkipsQuestion(t, r) ==
    turn' = [turn EXCEPT ![t].resp = r, ![t].pc = IF ~Durable(t) THEN "done"
                                                 ELSE IF r = "ok" THEN "pUser" ELSE "pAsst"]

\* A turn whose response is known persists it when durable, else returns it.
Respond(t, r) ==
    turn' = [turn EXCEPT ![t].resp = r, ![t].pc = IF Durable(t) THEN "pUser" ELSE "done"]

DbUnchanged == UNCHANGED <<now, used, sess, msgs, disk>>

-----------------------------------------------------------------------------
(* POST /api/query *)

\* Durable turns of s answered and saved before a question is sent (history).
Answered(s) == {x \in Turns : turn[x].saved /\ turn[x].sid = s}

Send(t, u, s) ==
    /\ turn[t].pc = "idle"
    /\ turn' = [turn EXCEPT ![t].user = u, ![t].sid = s,
                            ![t].seen = IF u # None THEN Answered(s) ELSE {},
                            ![t].pc = IF u # None /\ s # None THEN "owner" ELSE "translate"]
    /\ DbUnchanged /\ UNCHANGED <<eph, edit, crashes>>

CheckOwner(t) ==
    /\ turn[t].pc = "owner"
    /\ IF session_belongs_to_user(turn[t].sid, turn[t].user)
         THEN Go(t, "translate")
         ELSE turn' = [turn EXCEPT ![t].resp = "rejected", ![t].pc = "done"]
    /\ DbUnchanged /\ UNCHANGED <<eph, edit, crashes>>

\* Scope guard, translation cache and model call: declined or unparseable
\* (error), a chain plan run to its end (chain, or error), or one tool call.
Translate(t) ==
    /\ turn[t].pc = "translate"
    /\ \/ Respond(t, "error")
       \/ Planner /\ Respond(t, "chain")
       \/ Go(t, "prior")
    /\ DbUnchanged /\ UNCHANGED <<eph, edit, crashes>>

\* get_last_resolved_call, or get_prior_state of the in-memory store
ReadPrior(t) ==
    /\ turn[t].pc = "prior"
    /\ LET s == turn[t].sid
           p == CASE Durable(t) -> LastResolved(s)
                  [] ~Durable(t) /\ s # None -> eph[s]
                  [] OTHER -> None
       IN  turn' = [turn EXCEPT ![t].prior = p, ![t].pc = "resolve"]
    /\ DbUnchanged /\ UNCHANGED <<eph, edit, crashes>>

\* Resolution, meta routing and the filter guard: a clarify prompt, a decline,
\* or a call to dispatch, inheriting from the prior turn or not.
Resolve(t) ==
    /\ turn[t].pc = "resolve"
    /\ \/ \E r \in {"clarify", "error"} : Respond(t, r)
       \/ \E b \in {None} \cup (IF turn[t].prior = None THEN {} ELSE {turn[t].prior.turn}) :
              turn' = [turn EXCEPT ![t].call = [turn |-> t, base |-> b], ![t].pc = "dispatch"]
    /\ DbUnchanged /\ UNCHANGED <<eph, edit, crashes>>

\* dispatch_function and format_answer (which never fails: it falls back to a
\* template).  An anonymous success overwrites the in-memory state of its id.
Dispatch(t) ==
    /\ turn[t].pc = "dispatch"
    /\ \/ Respond(t, "error") /\ UNCHANGED eph
       \/ /\ Respond(t, "ok")
          /\ eph' = IF ~Durable(t) /\ turn[t].sid # None
                      THEN [eph EXCEPT ![turn[t].sid] = turn[t].call] ELSE eph
    /\ DbUnchanged /\ UNCHANGED <<edit, crashes>>

\* process_question's outer except (and an exception of the ownership check):
\* an error response that is NOT persisted
Raise(t) ==
    /\ turn[t].pc \in Thinking
    /\ turn' = [turn EXCEPT ![t].resp = "raised", ![t].pc = "done"]
    /\ DbUnchanged /\ UNCHANGED <<eph, edit, crashes>>

-----------------------------------------------------------------------------
(* _persist_turn: four repository writes, each an execute and a commit. *)

Row(t, role, call) == [at |-> now, sid |-> turn[t].sid, role |-> role, turn |-> t, call |-> call]

\* insert_message; the foreign key refuses a row of a deleted session, and the
\* exception ends _persist_turn, which swallows it
Insert(t, from, to, row) ==
    /\ turn[t].pc = from
    /\ IF ForeignKey(turn[t].sid)
         THEN msgs' = msgs \cup {row} /\ now' = now + 1 /\ Go(t, to)
         ELSE Go(t, "done") /\ UNCHANGED <<msgs, now>>
    /\ UNCHANGED <<used, sess, disk, eph, edit, crashes>>

InsertUser(t) == Insert(t, "pUser", "cUser", Row(t, "user", None))

\* fault: every turn that got as far as a call stores it
StoredAlways(t) == turn[t].call

\* fault: the call is stored under the turn it inherited from
StoredBase(t) == IF turn[t].resp = "ok" THEN [turn |-> turn[t].call.base, base |-> None] ELSE None

\* fault: only a call that inherited something is stored
StoredFollowUp(t) == IF turn[t].resp = "ok" /\ turn[t].call.base # None THEN turn[t].call ELSE None

\* resolved_call is NULL unless the turn succeeded with resolved_args
StoredCall(t) == IF turn[t].resp = "ok" THEN turn[t].call ELSE None

InsertAssistant(t) == Insert(t, "pAsst", "cAsst", Row(t, "assistant", StoredCall(t)))

Touch(t) ==
    /\ turn[t].pc = "pTouch"
    /\ sess' = IF Owned(turn[t].sid, turn[t].user)
                 THEN [sess EXCEPT ![turn[t].sid].active = now] ELSE sess
    /\ now' = now + 1
    /\ Go(t, "cTouch")
    /\ UNCHANGED <<used, msgs, disk, eph, edit, crashes>>

\* set_session_title_if_unset
AutoTitle(t) ==
    /\ turn[t].pc = "pTitle"
    /\ LET s == turn[t].sid
       IN  sess' = IF Owned(s, turn[t].user) /\ Untitled(s)
                     THEN [sess EXCEPT ![s].title = t] ELSE sess
    /\ Go(t, "cTitle")
    /\ UNCHANGED <<now, used, msgs, disk, eph, edit, crashes>>

AfterCommit(pc) ==
    CASE pc = "cUser" -> "pAsst" [] pc = "cAsst" -> "pTouch"
      [] pc = "cTouch" -> "pTitle" [] OTHER -> "done"

Commit(t) ==
    /\ turn[t].pc \in Committing
    /\ turn' = [turn EXCEPT ![t].pc = AfterCommit(@), ![t].saved = turn[t].pc = "cTitle"]
    /\ UNCHANGED <<now, used, sess, msgs, eph, edit, crashes>>
    /\ CommitAll

\* Any other exception of a write or commit: swallowed, the answer is returned,
\* and what was executed but not committed stays pending on the connection.
PersistFails(t) ==
    /\ turn[t].pc \in Writing \cup Committing
    /\ Go(t, "done")
    /\ DbUnchanged /\ UNCHANGED <<eph, edit, crashes>>

-----------------------------------------------------------------------------
(* Session routes.  Between its INSERT and its commit nobody else knows the *)
(* new id, so creation is one step.                                         *)

Create(u, s, title) ==
    /\ s \notin used
    /\ used' = used \cup {s}
    /\ sess' = [sess EXCEPT ![s] = [owner |-> u, title |-> title, active |-> now]]
    /\ now' = now + 1
    /\ UNCHANGED <<msgs, eph, turn, edit, crashes>>
    /\ CommitAll

EditUnchanged == DbUnchanged /\ UNCHANGED <<eph, turn, crashes>>
Reply(e, code) == edit' = [edit EXCEPT ![e].code = code, ![e].pc = "done"]

EditSend(e, kind, u, s) ==
    /\ edit[e].pc = "idle"
    /\ edit' = [edit EXCEPT ![e].kind = kind, ![e].user = u, ![e].sid = s, ![e].pc = "belongs"]
    /\ EditUnchanged

\* require_owned_session: two reads, the second after another await
EditBelongs(e) ==
    /\ edit[e].pc = "belongs"
    /\ IF session_belongs_to_user(edit[e].sid, edit[e].user) THEN edit' = [edit EXCEPT ![e].pc = "load"]
                                           ELSE Reply(e, "404")
    /\ EditUnchanged

EditLoad(e) ==
    /\ edit[e].pc = "load"
    /\ IF sess[edit[e].sid] # None THEN edit' = [edit EXCEPT ![e].pc = "write"]
                                   ELSE Reply(e, "404")
    /\ EditUnchanged

\* rename_chat_session or delete_chat_session (ON DELETE CASCADE), by owner
EditWrite(e) ==
    LET s == edit[e].sid
        mine == Owned(s, edit[e].user)
        deletes == mine /\ edit[e].kind = "delete"
    IN  /\ edit[e].pc = "write"
        /\ edit' = [edit EXCEPT ![e].hit = mine, ![e].pc = "commit"]
        /\ sess' = CASE deletes -> [sess EXCEPT ![s] = None]
                     [] mine /\ ~deletes -> [sess EXCEPT ![s].title = e]
                     [] OTHER -> sess
        /\ msgs' = IF deletes THEN Cascade(s) ELSE msgs
        /\ UNCHANGED <<now, used, disk, eph, turn, crashes>>

EditCommit(e) ==
    /\ edit[e].pc = "commit"
    /\ CASE ~edit[e].hit -> Reply(e, "404")
         [] edit[e].hit /\ edit[e].kind = "rename" -> edit' = [edit EXCEPT ![e].pc = "reread"]
         [] OTHER -> Reply(e, "200")
    /\ UNCHANGED <<now, used, sess, msgs, eph, turn, crashes>>
    /\ CommitAll

\* rename re-reads the row; SessionMeta(**None) raises when it is gone
EditReread(e) ==
    /\ edit[e].pc = "reread"
    /\ Reply(e, IF sess[edit[e].sid] # None THEN "200" ELSE "500")
    /\ EditUnchanged

-----------------------------------------------------------------------------
(* The process and its in-memory store. *)

\* the store is a TTLCache: an entry may expire or be evicted at any time
Forget(s) ==
    /\ eph[s] # None
    /\ eph' = [eph EXCEPT ![s] = None]
    /\ DbUnchanged /\ UNCHANGED <<turn, edit, crashes>>

\* The process dies and is restarted: SQLite rolls back to the last commit,
\* requests in flight and the in-memory store are gone.
Crash ==
    /\ crashes < MaxCrashes
    /\ crashes' = crashes + 1
    /\ sess' = disk.sess /\ msgs' = disk.msgs
    /\ eph' = [s \in Sids |-> None]
    /\ turn' = [t \in Turns |-> IF turn[t].pc \in {"idle", "done"} THEN turn[t]
                                ELSE [turn[t] EXCEPT !.pc = "lost"]]
    /\ edit' = [e \in Edits |-> IF edit[e].pc \in {"idle", "done"} THEN edit[e]
                                ELSE [edit[e] EXCEPT !.pc = "lost"]]
    /\ UNCHANGED <<now, used, disk>>

Init ==
    /\ now = 0 /\ used = {} /\ crashes = 0
    /\ sess = [s \in Sids |-> None] /\ msgs = {}
    /\ disk = [sess |-> sess, msgs |-> msgs]
    /\ eph = [s \in Sids |-> None]
    /\ turn = [t \in Turns |-> [pc |-> "idle", user |-> None, sid |-> None, seen |-> {},
                                prior |-> None, call |-> None, resp |-> "none", saved |-> FALSE]]
    /\ edit = [e \in Edits |-> [pc |-> "idle", kind |-> "rename", user |-> None, sid |-> None,
                                hit |-> FALSE, code |-> "none"]]

Progress(t) ==
    \/ CheckOwner(t) \/ Translate(t) \/ ReadPrior(t) \/ Resolve(t) \/ Dispatch(t)
    \/ InsertUser(t) \/ InsertAssistant(t) \/ Touch(t) \/ AutoTitle(t) \/ Commit(t)

EditStep(e) ==
    EditBelongs(e) \/ EditLoad(e) \/ EditWrite(e) \/ EditCommit(e) \/ EditReread(e)

Client ==
    \/ \E t \in Turns, u \in Users \cup {None}, s \in Sids \cup {None} : Send(t, u, s)
    \/ \E u \in Users, s \in Sids, title \in {None, "given"} : Create(u, s, title)
    \/ \E e \in Edits, k \in {"rename", "delete"}, u \in Users, s \in Sids : EditSend(e, k, u, s)

Next ==
    \/ Client
    \/ \E t \in Turns : Progress(t) \/ Raise(t) \/ PersistFails(t)
    \/ \E e \in Edits : EditStep(e)
    \/ \E s \in Sids : Forget(s)
    \/ Crash

Spec == Init /\ [][Next]_vars

-----------------------------------------------------------------------------
(* Properties *)

AnswerRow(x) == {m \in msgs : m.turn = x /\ m.role = "assistant"}

\* A message always belongs to an existing session, and the session to the user
\* whose question produced the message: deletes racing _persist_turn leave no
\* orphans and no request writes into another user's conversation.
MessagesHaveOwner ==
    \A m \in msgs : sess[m.sid] # None /\ sess[m.sid].owner = turn[m.turn].user

\* In memory and on disk, across failures of single writes and crashes, an
\* assistant row is preceded by the user row of the same turn: _persist_turn may
\* lose an answer, never the question of a stored answer.
QuestionBeforeAnswer ==
    \A rows \in {msgs, disk.msgs} : \A a \in rows : a.role = "assistant" =>
        \E q \in rows : q.role = "user" /\ q.turn = a.turn /\ q.sid = a.sid /\ q.at < a.at

\* Once the assistant row's commit returned, both rows of the turn are on disk
\* for as long as the session exists, whatever crashes later.
SavedIsDurable ==
    \A t \in Turns :
        /\ turn[t].saved \/ turn[t].pc \in {"pTouch", "cTouch", "pTitle", "cTitle"}
        /\ sess[turn[t].sid] # None
        => {"user", "assistant"} \subseteq {m.role : m \in {n \in disk.msgs : n.turn = t}}

\* What a turn resolves against is a successful turn of the same user in the
\* same conversation: no filter ever crosses sessions or comes from a declined,
\* clarified or failed turn, whether the state is durable or in memory.
PriorOfSameConversation ==
    \A t \in Turns : turn[t].prior # None =>
        LET p == turn[turn[t].prior.turn]
        IN  p.sid = turn[t].sid /\ p.user = turn[t].user /\ p.resp = "ok"

\* A question sent after a successful answer of its conversation was complete
\* resolves against that answer or a later one, also across a restart.
FollowUpSeesAnswer ==
    [][\A t \in Turns :
        turn[t].pc = "prior" /\ turn'[t].pc = "resolve" /\ Durable(t) /\ sess[turn[t].sid] # None
        => \A x \in turn[t].seen : turn[x].resp = "ok" =>
             \E m \in msgs : /\ m.call # None /\ m.call = turn'[t].prior
                            /\ \A a \in AnswerRow(x) : a.at =< m.at]_vars

\* The state a follow-up would read only moves to a turn that succeeded, when
\* that turn stores its answer; declines, clarifies, errors and chains leave it
\* alone.  (Deleting the session or a crash drops what was not committed.)
OnlySuccessMovesPrior ==
    [][\A s \in Sids :
        LastResolved(s)' # LastResolved(s) =>
            \/ sess'[s] = None
            \/ crashes' # crashes
            \/ /\ LastResolved(s)' # None
               /\ LET x == turn[LastResolved(s)'.turn]
                  IN  x.pc = "pAsst" /\ x.resp = "ok" /\ x.sid = s]_vars

\* A title, once set, is replaced only by a rename: the automatic title of a
\* slow first turn never overwrites what the user typed meanwhile.
TitleOnlyRenamed ==
    [][\A s \in Sids :
        sess[s] # None /\ sess'[s] # None /\ sess[s].title # None /\ crashes' = crashes
        => sess'[s].title \in {sess[s].title} \cup Edits]_vars

(* What a comment of the code says, and the code does not do. *)

\* process_question: "resolves this turn against the prior turn's state in the
\* same session", for a prior turn that was answered, by a chain or by one call.
PriorIsPrecedingAnswer ==
    [][\A t \in Turns :
        turn[t].pc = "prior" /\ turn'[t].pc = "resolve" /\ Durable(t) /\ sess[turn[t].sid] # None
        => \A x \in turn[t].seen : turn[x].resp \in {"ok", "chain"} =>
             \E m \in msgs : /\ m.call # None /\ m.call = turn'[t].prior
                            /\ \A a \in AnswerRow(x) : a.at =< m.at]_vars
=============================================================================
