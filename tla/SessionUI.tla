------------------------------ MODULE SessionUI ------------------------------
(***************************************************************************)
(* The web client's conversation state: SessionProvider                    *)
(* (session/SessionContext.tsx) and sendCore, cancel and new chat of       *)
(* pages/ChatPage.tsx, against a server that answers requests in any order. *)
(*                                                                         *)
(* An await ends a step.  The state a continuation sets is rendered in a   *)
(* later step (Paint) and the message effect of that render, the cleanup   *)
(* of the one before it included, runs in a step after that (Effect);      *)
(* React renders a click, and runs its effects, before anything else.      *)
(* A callback keeps the values of the render it was created in.  A message *)
(* is the turn (send) it belongs to, its role and whether its id starts    *)
(* with "local-".  One login; titles are left out.                         *)
(***************************************************************************)
EXTENDS Naturals, SequencesExt

CONSTANTS
    Convs,    \* conversation ids
    Start,    \* the conversations on the server at mount, most recent first
    Sends,    \* questions typed into the composer
    Clicks,   \* "New chat" and delete requests
    MaxPicks, \* bound on conversations picked in the sidebar
    None

VARIABLES
    chats,     \* server: the user's conversations, most recently active first
    used,      \* server: ids ever given out
    rows,      \* server: the turns stored in each conversation
    sessions, activeId, messages,   \* SessionProvider's state
    shown,     \* the last render: what its callbacks captured
    effectId,  \* the active id the message effect last ran for
    skipLoadFor,
    list,      \* the list request of the mount effect
    loads,     \* message requests: `live` until their effect is cleaned up
    isLoading, abortRef,            \* ChatPage
    send, click, picks

server == <<chats, used, rows>>
state == <<sessions, activeId, messages>>
effect == <<effectId, skipLoadFor, loads>>
provider == <<state, shown, effect>>
page == <<isLoading, abortRef>>
vars == <<server, provider, page, list, send, click, picks>>

ASSUME UIConstants ==
    /\ None \notin Convs \cup Sends
    /\ Start \in Seq(Convs) /\ IsInjective(Start)
    /\ MaxPicks \in Nat

Ids == Seq(Convs)
Messages == [send : Sends, role : {"user", "assistant"}, local : BOOLEAN]
InFlight == {"creating", "created", "asking"}

TypeOK ==
    /\ chats \in Ids /\ used \subseteq Convs
    /\ rows \in [Convs -> SUBSET Sends]
    /\ sessions \in Ids /\ activeId \in Convs \cup {None}
    /\ messages \subseteq Messages
    /\ shown \in [active : Convs \cup {None}, list : Ids]
    /\ effectId \in Convs \cup {None} /\ skipLoadFor \in Convs \cup {None}
    /\ list \in [pc : {"asked", "read", "done"}, rows : Ids]
    /\ loads \subseteq [conv : Convs, live : BOOLEAN, pc : {"asked", "read"}, rows : SUBSET Sends]
    /\ isLoading \in BOOLEAN /\ abortRef \in Sends \cup {None}
    /\ send \in [Sends -> [pc : {"idle", "done"} \cup InFlight, sid : Convs \cup {None},
                           aborted : BOOLEAN, out : BOOLEAN, stored : BOOLEAN]]
    /\ click \in [Clicks -> [pc : {"idle", "asked", "read", "done"}, kind : {"new", "delete"},
                             conv : Convs \cup {None}, active : Convs \cup {None}, list : Ids]]
    /\ picks \in 0..MaxPicks

-----------------------------------------------------------------------------
(* Helpers *)

\* the elements of s other than c, in their order
Without(s, c) ==
    LET kept == {i \in 1..Len(s) : s[i] # c}
        Rank(i) == Cardinality({j \in kept : j =< i})
    IN  [n \in 1..Cardinality(kept) |-> s[CHOOSE i \in kept : Rank(i) = n]]

\* fault: the row taken for its id
FirstRow(s) == SubSeq(s, 1, 1)

First(s) == IF s = <<>> THEN None ELSE s[1]
Local(x, role) == [send |-> x, role |-> role, local |-> TRUE]
Stored(xs) == [send : xs, role : {"user", "assistant"}, local : {FALSE}]

\* fault: the effect has no cleanup
KeepAll == loads

\* the effect's cleanup: active = false
Retired == {[l EXCEPT !.live = FALSE] : l \in loads}

\* The message effect run for c after the cleanup of the run before it: an empty
\* transcript for none, else a load unless skipLoadFor names c.
RunEffect(c) ==
    /\ effectId' = c
    /\ messages' = IF c = None THEN {} ELSE messages
    /\ skipLoadFor' = IF c = skipLoadFor THEN None ELSE skipLoadFor
    /\ loads' = Retired \cup IF c \in {None, skipLoadFor} THEN {}
                           ELSE {[conv |-> c, live |-> TRUE, pc |-> "asked", rows |-> {}]}

-----------------------------------------------------------------------------
(* Renders, the list effect and the message effect *)

\* effects still due are run before the next render
Paint ==
    /\ shown.active = effectId
    /\ shown # [active |-> activeId, list |-> sessions]
    /\ shown' = [active |-> activeId, list |-> sessions]
    /\ UNCHANGED <<server, state, effect, page, list, send, click, picks>>

Effect ==
    /\ shown.active # effectId
    /\ RunEffect(shown.active)
    /\ UNCHANGED <<server, sessions, activeId, shown, page, list, send, click, picks>>

ListRead ==
    /\ list.pc = "asked"
    /\ list' = [pc |-> "read", rows |-> chats]
    /\ UNCHANGED <<server, provider, page, send, click, picks>>

\* setActiveId(prev => prev ?? rows[0].id)
ListAnswered ==
    /\ list.pc = "read"
    /\ list' = [list EXCEPT !.pc = "done"]
    /\ sessions' = list.rows
    /\ activeId' = IF activeId = None THEN First(list.rows) ELSE activeId
    /\ UNCHANGED <<server, messages, shown, effect, page, send, click, picks>>

ListFails ==
    /\ list.pc # "done"
    /\ list' = [list EXCEPT !.pc = "done"]
    /\ sessions' = <<>>
    /\ UNCHANGED <<server, activeId, messages, shown, effect, page, send, click, picks>>

LoadRead(l) ==
    /\ l.pc = "asked" /\ Contains(chats, l.conv)
    /\ loads' = (loads \ {l}) \cup {[l EXCEPT !.pc = "read", !.rows = rows[l.conv]]}
    /\ UNCHANGED <<server, state, shown, effectId, skipLoadFor, page, list, send, click, picks>>

LoadAnswered(l) ==
    /\ l.pc = "read"
    /\ loads' = loads \ {l}
    /\ messages' = IF l.live THEN Stored(l.rows) \cup {m \in messages : m.local} ELSE messages
    /\ UNCHANGED <<server, sessions, activeId, shown, effectId, skipLoadFor, page, list, send, click, picks>>

\* the network, or a 404 because the conversation is gone
LoadFails(l) ==
    /\ loads' = loads \ {l}
    /\ messages' = IF l.live THEN {} ELSE messages
    /\ UNCHANGED <<server, sessions, activeId, shown, effectId, skipLoadFor, page, list, send, click, picks>>

\* a click: effects due before it, its render and the effect of that all run now
Select(c) ==
    /\ Contains(shown.list, c) /\ picks < MaxPicks
    /\ shown.active = effectId
    /\ picks' = picks + 1
    /\ activeId' = c /\ shown' = [shown EXCEPT !.active = c]
    /\ IF c = effectId THEN UNCHANGED <<messages, effect>> ELSE RunEffect(c)
    /\ UNCHANGED <<server, sessions, page, list, send, click>>

-----------------------------------------------------------------------------
(* sendCore.  It creates a conversation first when none is active. *)

Submit(x) ==
    /\ send[x].pc = "idle"
    /\ shown.active = effectId
    /\ isLoading' = TRUE /\ abortRef' = x
    /\ IF shown.active = None
         THEN send' = [send EXCEPT ![x].pc = "creating"] /\ UNCHANGED messages
         ELSE /\ send' = [send EXCEPT ![x].pc = "asking", ![x].sid = shown.active, ![x].out = TRUE]
              /\ messages' = messages \cup {Local(x, "user")}
    /\ UNCHANGED <<server, sessions, activeId, shown, effect, list, click, picks>>

\* ChatPanel sends nothing while a question is loading
Ask(x) == ~isLoading /\ Submit(x)

\* POST /api/sessions on the server
NewConv(c) == /\ c \notin used /\ used' = used \cup {c} /\ chats' = <<c>> \o chats

ServerCreates(x, c) ==
    /\ send[x].pc = "creating"
    /\ NewConv(c)
    /\ send' = [send EXCEPT ![x].pc = "created", ![x].sid = c]
    /\ UNCHANGED <<rows, provider, page, list, click, picks>>

\* the finally block
Finish == isLoading' = FALSE /\ abortRef' = None

\* newSession after its await; the effect of the new id is told not to load
NewSession(c) ==
    /\ skipLoadFor' = c
    /\ sessions' = <<c>> \o sessions
    /\ activeId' = c

\* newSession's continuation, then sendCore's: the question is appended and sent.
\* fetch refuses a signal aborted meanwhile.
Created(x) ==
    /\ send[x].pc = "created"
    /\ NewSession(send[x].sid)
    /\ IF send[x].aborted
         THEN /\ send' = [send EXCEPT ![x].pc = "done"]
              /\ messages' = {Local(x, "user"), Local(x, "assistant")}
              /\ Finish
         ELSE /\ send' = [send EXCEPT ![x].pc = "asking", ![x].out = TRUE]
              /\ messages' = {Local(x, "user")}
              /\ UNCHANGED page
    /\ UNCHANGED <<server, shown, effectId, loads, list, click, picks>>

\* POST /api/query on the server, which an aborted fetch does not stop; a
\* conversation deleted meanwhile is refused
ServerAnswers(x) ==
    /\ send[x].out /\ ~send[x].stored
    /\ Contains(chats, send[x].sid)
    /\ send' = [send EXCEPT ![x].stored = TRUE]
    /\ rows' = [rows EXCEPT ![send[x].sid] = @ \cup {x}]
    /\ chats' = <<send[x].sid>> \o Without(chats, send[x].sid)
    /\ UNCHANGED <<used, provider, page, list, click, picks>>

\* Every way out of the try block appends one assistant message, to whatever
\* transcript is shown by then.  An id that never arrived stays unknown.
Conclude(x) ==
    /\ send' = [send EXCEPT ![x].pc = "done",
                            ![x].sid = IF send[x].pc = "asking" THEN @ ELSE None]
    /\ messages' = messages \cup {Local(x, "assistant")}
    /\ Finish
    /\ UNCHANGED <<server, sessions, activeId, shown, effect, list, click, picks>>

Answered(x) == send[x].pc = "asking" /\ ~send[x].aborted /\ send[x].stored /\ Conclude(x)
Aborted(x) == send[x].pc = "asking" /\ send[x].aborted /\ Conclude(x)
Lost(x) == send[x].pc \in InFlight /\ ~(send[x].pc = "asking" /\ send[x].aborted)

\* fault: the composer is unlocked after the answer, not in a finally block
FailsLocked(x) ==
    /\ Lost(x)
    /\ send' = [send EXCEPT ![x].pc = "done"]
    /\ messages' = messages \cup {Local(x, "assistant")}
    /\ UNCHANGED <<server, sessions, activeId, shown, effect, page, list, click, picks>>

Fails(x) == Lost(x) /\ Conclude(x)

\* handleCancel; the button is there while isLoading
Cancel ==
    /\ isLoading
    /\ send' = IF abortRef = None THEN send ELSE [send EXCEPT ![abortRef].aborted = TRUE]
    /\ Finish
    /\ UNCHANGED <<server, provider, list, click, picks>>

-----------------------------------------------------------------------------
(* New chat and delete *)

ClickNew(k) ==
    /\ click[k].pc = "idle"
    /\ click' = [click EXCEPT ![k].pc = "asked", ![k].kind = "new"]
    /\ UNCHANGED <<server, provider, page, list, send, picks>>

\* the callback of the last render has captured activeId and sessions
ClickDelete(k, c) ==
    /\ click[k].pc = "idle" /\ Contains(shown.list, c)
    /\ click' = [click EXCEPT ![k] = [pc |-> "asked", kind |-> "delete", conv |-> c,
                                      active |-> shown.active, list |-> shown.list]]
    /\ UNCHANGED <<server, provider, page, list, send, picks>>

ServerNew(k, c) ==
    /\ click[k].pc = "asked" /\ click[k].kind = "new"
    /\ NewConv(c)
    /\ click' = [click EXCEPT ![k].pc = "read", ![k].conv = c]
    /\ UNCHANGED <<rows, provider, page, list, send, picks>>

ServerDeletes(k) ==
    /\ click[k].pc = "asked" /\ click[k].kind = "delete" /\ Contains(chats, click[k].conv)
    /\ chats' = Without(chats, click[k].conv)
    /\ rows' = [rows EXCEPT ![click[k].conv] = {}]
    /\ click' = [click EXCEPT ![k].pc = "read"]
    /\ UNCHANGED <<used, provider, page, list, send, picks>>

NewDone(k) ==
    /\ click[k].pc = "read" /\ click[k].kind = "new"
    /\ NewSession(click[k].conv)
    /\ messages' = {}
    /\ click' = [click EXCEPT ![k].pc = "done"]
    /\ UNCHANGED <<server, shown, effectId, loads, page, list, send, picks>>

DeleteDone(k) ==
    LET c == click[k].conv
    IN  /\ click[k].pc = "read" /\ click[k].kind = "delete"
        /\ sessions' = Without(sessions, c)
        /\ IF click[k].active = c
             THEN activeId' = First(Without(click[k].list, c)) /\ messages' = {}
             ELSE UNCHANGED <<activeId, messages>>
        /\ click' = [click EXCEPT ![k].pc = "done"]
        /\ UNCHANGED <<server, shown, effect, page, list, send, picks>>

\* the request fails, before or after it took effect: the click is forgotten
ClickFails(k) ==
    /\ click[k].pc \in {"asked", "read"}
    /\ click' = [click EXCEPT ![k].pc = "done"]
    /\ UNCHANGED <<server, provider, page, list, send, picks>>

-----------------------------------------------------------------------------
Init ==
    /\ chats = Start /\ used = ToSet(Start) /\ rows = [c \in Convs |-> {}]
    /\ sessions = <<>> /\ activeId = None /\ messages = {} /\ loads = {}
    /\ shown = [active |-> None, list |-> <<>>] /\ effectId = None /\ skipLoadFor = None
    /\ list = [pc |-> "asked", rows |-> <<>>]
    /\ isLoading = FALSE /\ abortRef = None
    /\ send = [x \in Sends |-> [pc |-> "idle", sid |-> None, aborted |-> FALSE,
                                out |-> FALSE, stored |-> FALSE]]
    /\ click = [k \in Clicks |-> [pc |-> "idle", kind |-> "new", conv |-> None,
                                  active |-> None, list |-> <<>>]]
    /\ picks = 0

Request(x) ==
    \/ \E c \in Convs : ServerCreates(x, c)
    \/ Created(x) \/ Answered(x) \/ Aborted(x) \/ Fails(x)

User ==
    \/ \E x \in Sends : Ask(x)
    \/ \E c \in Convs : Select(c)
    \/ Cancel
    \/ \E k \in Clicks : ClickNew(k) \/ \E c \in Convs : ClickDelete(k, c)

Next ==
    \/ User
    \/ Paint \/ Effect
    \/ ListRead \/ ListAnswered \/ ListFails
    \/ \E l \in loads : LoadRead(l) \/ LoadAnswered(l) \/ LoadFails(l)
    \/ \E x \in Sends : Request(x) \/ ServerAnswers(x)
    \/ \E k \in Clicks : \/ \E c \in Convs : ServerNew(k, c)
                         \/ ServerDeletes(k) \/ NewDone(k) \/ DeleteDone(k) \/ ClickFails(k)

Spec == Init /\ [][Next]_vars

\* A fetch ends: it is answered, aborted, or its connection fails.
FairSpec == Spec /\ \A x \in Sends : WF_vars(Request(x))

-----------------------------------------------------------------------------
(* Properties *)

\* Rows that arrive from the server belong to the conversation the message effect
\* last ran for: an answer to an older fetch never enters the transcript of the
\* conversation opened after it.
LateFetchIgnored ==
    [][\A m \in messages' \ messages : ~m.local => send[m.send].sid = effectId]_vars

\* While the composer is locked, Cancel reaches a question still under way; and
\* as long as nobody has cancelled, a question under way is the one it reaches.
CancelReachesSend ==
    /\ isLoading => /\ abortRef # None
                    /\ send[abortRef].pc \in InFlight /\ ~send[abortRef].aborted
    /\ (\A x \in Sends : ~send[x].aborted) =>
           \A x \in Sends : send[x].pc \in InFlight => isLoading /\ abortRef = x

\* The composer is unlocked again, however the question ends: answered, failed
\* before or after its conversation was created, or cancelled.
ComposerUnlocked == isLoading ~> ~isLoading

\* "in-flight AbortController so the cancel button can kill the request
\* mid-flight" (ChatPage.tsx:42-43): the button holds every question under way.
RunningIsCancellable ==
    \A x \in Sends : send[x].pc \in InFlight /\ ~send[x].aborted => abortRef = x

\* "the messages of the active session" (SessionContext.tsx:25-27), once it is
\* rendered and nothing is being fetched.
TranscriptIsActive ==
    activeId = effectId /\ (\A l \in loads : ~l.live) =>
        \A m \in messages : send[m.send].sid \in {activeId, None}
=============================================================================
