----------------------------- MODULE Translation -----------------------------
(***************************************************************************)
(* From a question to its answer, as process_question waits for the model: *)
(* the translation cache, the retries of call_llm_for_tool, the plan read  *)
(* by normalize_plan and run by execute_plan, and format_answer.  What a   *)
(* call does in between is Conversation and the tools; here it ends the    *)
(* question or is answered.                                                *)
(*                                                                         *)
(* Keys are cache keys: a normalised question under one prompt and model.  *)
(* Values are the JSON answers of the model that parse: a tool call, a     *)
(* plan, or neither.  An attempt that times out, fails or does not parse   *)
(* only counts as failed; the thread of a timed-out call goes on, but its  *)
(* future is cancelled, so nothing of it reaches the server.  The cache is *)
(* enabled and the demo plans are off, as config.py has them by default;   *)
(* the planner is on.                                                      *)
(*                                                                         *)
(* Everything between two awaits is atomic under the event loop.  A hit is *)
(* a get and a set of the cache with no await between them: loop names the *)
(* request that holds the loop meanwhile.                                  *)
(***************************************************************************)
EXTENDS TTLCache, Sequences

CONSTANTS
    Requests,
    Chains,     \* the answers that are plans of mode chain
    Toolless,   \* those that name no tool: an error, nothing, a plan without a step
    Plan,       \* their steps: what each binds, the index of an earlier step or None
    MaxSteps,   \* planner_max_steps
    Attempts,   \* llm_max_attempts
    Timeout     \* llm_timeout_seconds

VARIABLES
    ask,    \* where the translation of each request is
    loop,   \* the request that holds the event loop over several steps
    told,   \* answers the model gave since the cache was last cleared (history)
    lastUse \* when a cached translation of each question was last used or made (history)

ASSUME TranslationConstants ==
    /\ Chains \subseteq Values /\ Toolless \subseteq Values \ Chains
    /\ Plan \in [Chains -> Seq(Nat \cup {None})]
    /\ MaxSteps \in Nat /\ Attempts \in Nat \ {0} /\ Timeout \in Nat

AskStates == {"idle", "cached", "calling", "chain", "call", "format", "answered", "error", "lost"}
NewAsk == [pc |-> "idle", key |-> None, tries |-> 0, began |-> 0, due |-> 0, waited |-> 0,
           plan |-> None, done |-> 0]

TranslationTypeOK ==
    /\ \A r \in Requests :
        /\ ask[r].pc \in AskStates /\ ask[r].key \in Keys \cup {None}
        /\ ask[r].tries \in 0..Attempts /\ ask[r].began \in Nat /\ ask[r].due \in Nat
        /\ ask[r].waited \in Nat /\ ask[r].plan \in Values \cup {None} /\ ask[r].done \in Nat
    /\ loop \in Requests \cup {None}
    /\ told \subseteq Keys \X Values
    /\ lastUse \in [Keys -> Nat \cup {None}]

\* the model is asked, for a translation or for the wording of an answer
OnModel == {"calling", "format"}

UseNow(k) == lastUse' = [lastUse EXCEPT ![k] = now]

\* fault: the retry waits for its answer without a timeout
AttemptUntimed(n) == now + n * Timeout

\* When the n-th call of the model, which starts now, is given up
AttemptDue(n) == now + Timeout

\* how long r has waited for the model, before this call of it and in it
Waited(r) == ask[r].waited + IF ask[r].pc \in OnModel THEN now - ask[r].began ELSE 0

\* r goes on to pc with the translation v; the locals of the call are gone
Proceed(r, pc, v) == ask' = [ask EXCEPT ![r] = [NewAsk EXCEPT !.pc = pc, !.plan = v, !.waited = Waited(r)]]

\* r is answered, or ends in an error
End(r, pc) == ask' = [ask EXCEPT ![r] = [NewAsk EXCEPT !.pc = pc]]

\* call_llm_for_tool: the first attempt, or another one while there are any left
Attempt(r, n, k) ==
    IF n =< Attempts
      THEN ask' = [ask EXCEPT ![r] = [NewAsk EXCEPT !.pc = "calling", !.key = k, !.tries = n, !.began = now,
                                                    !.due = AttemptDue(n), !.waited = Waited(r)]]
      ELSE End(r, "error")

\* fault: an await between the lookup and the write-back of a hit
ReleaseLoop(r) == loop' = None

KeepLoop(r) == loop' = r

\* translation_cache.get
Lookup(r, k) ==
    /\ loop = None /\ ask[r].pc = "idle"
    /\ \/ /\ Hit(k)
          /\ ask' = [ask EXCEPT ![r].pc = "cached", ![r].key = k, ![r].plan = got']
          /\ KeepLoop(r)
       \/ /\ Miss(k) \/ Expire(k)
          /\ Attempt(r, 1, k)
          /\ UNCHANGED loop
    /\ UNCHANGED <<told, lastUse>>

\* fault: only a translation the model was just asked for is cached
CacheFresh(k, v) == IF store[k] = None \/ Expired(k) THEN Set(k, v)
                    ELSE UNCHANGED <<now, store, moves, got, due, since>>

\* fault: whatever is no chain is cached
CacheAll(k, v) == IF v \in Chains THEN UNCHANGED <<now, store, moves, got, due, since>> ELSE Set(k, v)

\* translation_cache.set, for a single-step tool call only
Single(v) == v \notin Chains \cup Toolless
Cache(k, v) == IF Single(v) THEN Set(k, v) ELSE UNCHANGED <<now, store, moves, got, due, since>>

\* The translation v of r's question: normalize_plan, then the cache.  A chain is
\* executed and returned before the cache is reached; a plan without a step goes
\* on as a call of no tool.
Take(r, k, v) ==
    /\ \/ v \notin Chains /\ Proceed(r, "call", v)
       \/ v \in Toolless /\ End(r, "error")
       \/ v \in Chains /\ Len(Plan[v]) \in 1..MaxSteps /\ Proceed(r, "chain", v)
       \/ v \in Chains /\ Len(Plan[v]) \notin 1..MaxSteps /\ End(r, "error")
    /\ Cache(k, v)
    /\ IF Single(v) THEN UseNow(k) ELSE UNCHANGED lastUse

\* The write-back of a hit
UseCached(r) ==
    /\ ask[r].pc = "cached" /\ loop \in {r, None}
    /\ Take(r, ask[r].key, ask[r].plan)
    /\ loop' = None
    /\ UNCHANGED told

ModelAnswers(r, v) ==
    /\ loop = None /\ ask[r].pc = "calling"
    /\ Take(r, ask[r].key, v)
    /\ told' = told \cup {<<ask[r].key, v>>}
    /\ UNCHANGED loop

\* no JSON, an error of the service, or (now = due) a timeout
AttemptFails(r) ==
    /\ loop = None /\ ask[r].pc = "calling"
    /\ Attempt(r, ask[r].tries + 1, ask[r].key)
    /\ UNCHANGED <<now, store, moves, got, due, since, loop, told, lastUse>>

\* resolve_bindings: the step named has run.  Its result may have a value for the
\* field, a NULL, which drops the filter, or nothing, which ends the chain.
Resolvable(b, done) == b # None => b < done

\* format_answer asks the model for a sentence, with a timeout of its own
Format(r) == [NewAsk EXCEPT !.pc = "format", !.began = now, !.due = AttemptDue(1), !.waited = Waited(r)]

\* Resolution, guard and dispatch of a single call, any of which may end it
CallStep(r) ==
    /\ loop = None /\ ask[r].pc = "call"
    /\ End(r, "error") \/ ask' = [ask EXCEPT ![r] = Format(r)]
    /\ UNCHANGED <<now, store, moves, got, due, since, loop, told, lastUse>>

\* One step of execute_plan: bindings, routing, filter guard and dispatch, any
\* of which may end the chain
ChainStep(r) ==
    LET plan == Plan[ask[r].plan]
        i == ask[r].done + 1
    IN  /\ loop = None /\ ask[r].pc = "chain"
        /\ \/ End(r, "error")
           \/ /\ Resolvable(plan[i], ask[r].done)
              /\ ask' = [ask EXCEPT ![r] = IF i = Len(plan) THEN Format(r) ELSE [@ EXCEPT !.done = i]]
        /\ UNCHANGED <<now, store, moves, got, due, since, loop, told, lastUse>>

\* the sentence, or the template if the model fails or (now = due) is too late
Formatted(r) ==
    /\ loop = None /\ ask[r].pc = "format"
    /\ End(r, "answered")
    /\ UNCHANGED <<now, store, moves, got, due, since, loop, told, lastUse>>

\* POST /api/cache/clear
ClearCache == loop = None /\ Clear /\ told' = {} /\ lastUse' = [k \in Keys |-> None] /\ UNCHANGED loop

\* Timers fire when they are due: time does not pass an attempt's deadline.
Prompt == \A r \in Requests : ask[r].pc \in OnModel => now < ask[r].due

TranslationInit ==
    /\ Init
    /\ ask = [r \in Requests |-> NewAsk]
    /\ loop = None /\ told = {} /\ lastUse = [k \in Keys |-> None]

-----------------------------------------------------------------------------
(* Properties *)

\* Whatever the cache holds is a single call the model gave for that question
\* since the cache was last cleared: nothing survives a clear, not even through a
\* request that read it before, and neither chains, nor errors, nor answers without
\* a tool are ever cached.
CacheIsFresh ==
    \A k \in Live(store) : <<k, store[k].value>> \in told /\ Single(store[k].value)

\* The model is asked only for a question whose translation nobody used within
\* the time to live, unless max_entries other questions were used since: a use
\* renews the deadline, so a popular question is never translated again.
SparesModel ==
    [][\A r \in Requests : ask[r].pc # "calling" /\ ask'[r].pc = "calling" =>
         LET k == ask'[r].key
         IN  \/ lastUse[k] = None
             \/ now > lastUse[k] + TTL
             \/ Cardinality(since[k]) >= Max]_<<vars, ask, loop, told, lastUse>>

\* A question waits for the model at most attempts times timeout until it is
\* translated and one timeout more until its answer is worded, however often the
\* model is late, fails or answers nonsense.
AnsweredInTime ==
    \A r \in Requests : ask[r].pc \in OnModel =>
        Waited(r) =< Timeout * IF ask[r].pc = "calling" THEN ask[r].tries ELSE Attempts + 1
=============================================================================
